---- MODULE Spec2Model ----
(***************************************************************************)
(* Model of the conversation store of the MOD AI assistant                 *)
(* (class ConversationMemory, src/unnamed/part_002) together with the      *)
(* durable medium (localStorage) it persists to.                           *)
(*                                                                         *)
(* The Map of conversations is a sequence of conversation records in       *)
(* insertion order (a JavaScript Map iterates in insertion order and       *)
(* Map.set on an existing key keeps the key's position).  A Date is its    *)
(* millisecond value; a JSON text is the value JSON.parse gives for it,    *)
(* tagged with its kind, where a Date has become an ISO string [iso |-> t].*)
(*                                                                         *)
(* The route handlers of src/unnamed/part_000 (image generation, chat,     *)
(* audio) keep no state between requests: a request is handled in one      *)
(* step that records the request, the calls made upstream and the          *)
(* response.                                                               *)
(*                                                                         *)
(* The page (src/vercel-deployment/app/page.tsx) is its React state as of  *)
(* the last render together with its requests that have not settled.  An   *)
(* event handler runs to its first await in one step, and the state it     *)
(* sets is rendered before the next event is handled; what follows an      *)
(* await is a step of its own, taken when the request settles, and keeps   *)
(* the values the handler had captured.                                    *)
(***************************************************************************)
EXTENDS Integers, Sequences, FiniteSets, TLC

VARIABLES
    conversations,          \* this.conversations (Map in insertion order)
    currentConversationId,  \* this.currentConversationId
    storage,                \* localStorage item under STORAGE_KEY
    now,                    \* Date.now()
    msgSeq,                 \* number of messages addMessage has created
    appended,               \* history: id -> every message the conversation has held
    created,                \* history: ids made by createConversation and still that object
    last,                   \* the last operation and its arguments
    ret,                    \* the value the last operation returned
    ops,                    \* number of steps taken (bounds the run)
    env,                    \* process.env as the route modules read it at load
    request,                \* the request a route handler handled last
    upstream,               \* the calls that handler made upstream, in order,
                            \* each with what it settled with
    response,               \* the response it returned
    page,                   \* the state hooks of the page
    inFlight,               \* the requests of the page that have not settled
    authService,            \* the AuthService instance and its two localStorage items
    advancedSpeech          \* the AdvancedSpeechService instance and its MediaRecorder

\* the variables of the page
ui == <<page, inFlight>>

\* the variables of the route handlers
server == <<env, request, upstream, response>>

vars == <<conversations, currentConversationId, storage, now, msgSeq,
          appended, created, last, ret, ops, env, request, upstream, response,
          page, inFlight, authService, advancedSpeech>>

\* the variables of the two services beside the chat
aside == <<authService, advancedSpeech>>

(***************************************************************************)
(* Bounds of the model.  The two retention caps of the code (50 and 100)   *)
(* are scaled down: CapConversations and CapMessages stand for them.       *)
(***************************************************************************)
CapConversations == 2
CapMessages == 3
MaxOps == 5

MAX_CONVERSATIONS == CapConversations
MAX_MESSAGES_PER_CONVERSATION == CapMessages

TITLE_LENGTH == 50
CHARS_PER_TOKEN == 4

\* null, as a value of the type of a conversation id
Null == [t |-> 0 - 1, r |-> ""]
PLACEHOLDER_TITLE == "New Conversation"
ELLIPSIS == "..."

Min(a, b) == IF a < b THEN a ELSE b

\* Inputs of the operations.
Models == {"model-a"}
Roles == {"user", "assistant"}
RandomSuffixes == {"r1"}
Hello == "Hello"
Text50 == "0123456789012345678901234567890123456789012345678_"
Text51 == "0123456789012345678901234567890123456789012345678_X"
Contents == {Hello, Text50, Text51}
\* texts of 0, 2 and 13 estimated tokens, and budgets around their sums
WindowContents == {"", Hello, Text51}
Budgets == {0 - 1, 0, 2, 13, 15, 4000}
\* outcomes of localStorage.setItem explored: TRUE is a write that succeeds
Writes == {TRUE}

\* `conv_${Date.now()}_${Math.random().toString(36).substr(2, 9)}`
ConversationId(t, r) == [t |-> t, r |-> r]

(***************************************************************************)
(* Map operations.                                                         *)
(***************************************************************************)
Keys(map) == {map[i].id : i \in DOMAIN map}
MapHas(map, id) == id \in Keys(map)
MapGet(map, id) == map[CHOOSE i \in DOMAIN map : map[i].id = id]
MapSet(map, conv) ==
    IF MapHas(map, conv.id)
    THEN [i \in DOMAIN map |-> IF map[i].id = conv.id THEN conv ELSE map[i]]
    ELSE Append(map, conv)
MapDelete(map, id) == SelectSeq(map, LAMBDA c : c.id # id)

(***************************************************************************)
(* JSON.  A JSON text is modelled by its parse: kind "invalid" is a text   *)
(* JSON.parse throws on, kind "object" a text that parses to a non-array,  *)
(* kind "array" an array of conversation objects.  An element whose        *)
(* messages property is absent has hasMessages = FALSE.                    *)
(***************************************************************************)
NoItem == [kind |-> "none", elems |-> <<>>]
InvalidJson == [kind |-> "invalid", elems |-> <<>>]
ObjectJson == [kind |-> "object", elems |-> <<>>]
ArrayJson(elems) == [kind |-> "array", elems |-> elems]

\* Date.prototype.toJSON and new Date(isoString)
ToISOString(date) == [iso |-> date]
NewDate(text) == text.iso

MessageToJson(msg) ==
    [id |-> msg.id, content |-> msg.content, role |-> msg.role,
     timestamp |-> ToISOString(msg.timestamp)]

ConversationToJson(conv) ==
    [id |-> conv.id, title |-> conv.title, model |-> conv.model,
     createdAt |-> ToISOString(conv.createdAt),
     updatedAt |-> ToISOString(conv.updatedAt),
     hasMessages |-> TRUE,
     messages |-> [k \in DOMAIN conv.messages |-> MessageToJson(conv.messages[k])]]

\* JSON.stringify(Array.from(this.conversations.values()))
Stringify(map) == ArrayJson([i \in DOMAIN map |-> ConversationToJson(map[i])])

ReviveMessage(msg) ==
    [id |-> msg.id, content |-> msg.content, role |-> msg.role,
     timestamp |-> NewDate(msg.timestamp)]

\* mutant: the literal is built without the spread, and the title is lost
ReviveConversationWithoutTitle(conv) ==
    [id |-> conv.id, title |-> "", model |-> conv.model,
     createdAt |-> NewDate(conv.createdAt),
     updatedAt |-> NewDate(conv.updatedAt),
     messages |-> [k \in DOMAIN conv.messages |-> ReviveMessage(conv.messages[k])]]

\* the object literal built in the forEach of loadFromStorage / importConversations
ReviveConversation(conv) ==
    [id |-> conv.id, title |-> conv.title, model |-> conv.model,
     createdAt |-> NewDate(conv.createdAt),
     updatedAt |-> NewDate(conv.updatedAt),
     messages |-> [k \in DOMAIN conv.messages |-> ReviveMessage(conv.messages[k])]]

\* data.forEach(conv => this.conversations.set(conv.id, {...})): conv.messages.map
\* throws a TypeError on an element without messages and the loop stops there.
RECURSIVE ForEachSet(_, _)
ForEachSet(map, elems) ==
    IF elems = <<>> THEN [map |-> map, threw |-> FALSE]
    ELSE IF ~Head(elems).hasMessages THEN [map |-> map, threw |-> TRUE]
    ELSE ForEachSet(MapSet(map, ReviveConversation(Head(elems))), Tail(elems))

\* localStorage.setItem inside try/catch: ok = FALSE is a write that throws
SaveToStorage(map, ok) == IF ok THEN Stringify(map) ELSE storage

\* JSON.parse + data.forEach inside try/catch, on an empty Map
LoadFromStorage(item) ==
    IF item.kind = "array" THEN ForEachSet(<<>>, item.elems).map ELSE <<>>

(***************************************************************************)
(* Pure helpers of createConversation, addMessage and getContextMessages.  *)
(***************************************************************************)
\* Array.prototype.sort((a, b) => a.updatedAt - b.updatedAt): stable, ascending
InsertByUpdatedAt(sorted, conv) ==
    LET before == SelectSeq(sorted, LAMBDA c : c.updatedAt <= conv.updatedAt)
        after == SelectSeq(sorted, LAMBDA c : c.updatedAt > conv.updatedAt)
    IN before \o <<conv>> \o after

RECURSIVE SortByUpdatedAt(_)
SortByUpdatedAt(s) ==
    IF s = <<>> THEN <<>>
    ELSE InsertByUpdatedAt(SortByUpdatedAt(SubSeq(s, 1, Len(s) - 1)), s[Len(s)])

\* the eviction of createConversation
LimitConversations(map) ==
    IF Len(map) > MAX_CONVERSATIONS
    THEN MapDelete(map, SortByUpdatedAt(map)[1].id)
    ELSE map

\* mutant: the ellipsis is added from 50 characters on (>= for >)
TitleOfFromLimit(content) ==
    SubSeq(content, 1, Min(TITLE_LENGTH, Len(content)))
        \o (IF Len(content) >= TITLE_LENGTH THEN ELLIPSIS ELSE "")

\* message.content.slice(0, 50) + (message.content.length > 50 ? "..." : "")
TitleOf(content) ==
    SubSeq(content, 1, Min(TITLE_LENGTH, Len(content)))
        \o (IF Len(content) > TITLE_LENGTH THEN ELLIPSIS ELSE "")

\* mutant: slice(0, MAX) keeps the oldest messages instead of the most recent
LimitMessagesKeepOldest(messages) ==
    IF Len(messages) > MAX_MESSAGES_PER_CONVERSATION
    THEN SubSeq(messages, 1, MAX_MESSAGES_PER_CONVERSATION)
    ELSE messages

\* conversation.messages.slice(-MAX_MESSAGES_PER_CONVERSATION) when over the cap
LimitMessages(messages) ==
    IF Len(messages) > MAX_MESSAGES_PER_CONVERSATION
    THEN SubSeq(messages, Len(messages) - MAX_MESSAGES_PER_CONVERSATION + 1, Len(messages))
    ELSE messages

\* mutant: Math.floor for Math.ceil
EstimatedTokensFloor(msg) == Len(msg.content) \div CHARS_PER_TOKEN

\* Math.ceil(message.content.length / 4)
EstimatedTokens(msg) == (Len(msg.content) + CHARS_PER_TOKEN - 1) \div CHARS_PER_TOKEN

\* mutant: the loop stops at the budget even while the result is empty
RECURSIVE ContextLoopStrict(_, _, _, _, _)
ContextLoopStrict(messages, i, totalTokens, contextMessages, maxTokens) ==
    IF i < 1 THEN contextMessages
    ELSE IF totalTokens + EstimatedTokens(messages[i]) > maxTokens
         THEN contextMessages
         ELSE ContextLoopStrict(messages, i - 1, totalTokens + EstimatedTokens(messages[i]),
                                <<messages[i]>> \o contextMessages, maxTokens)

\* the for loop of getContextMessages, from index i down
RECURSIVE ContextLoop(_, _, _, _, _)
ContextLoop(messages, i, totalTokens, contextMessages, maxTokens) ==
    IF i < 1 THEN contextMessages
    ELSE IF totalTokens + EstimatedTokens(messages[i]) > maxTokens /\ Len(contextMessages) > 0
         THEN contextMessages
         ELSE ContextLoop(messages, i - 1, totalTokens + EstimatedTokens(messages[i]),
                          <<messages[i]>> \o contextMessages, maxTokens)

ContextMessages(map, id, maxTokens) ==
    IF ~MapHas(map, id) THEN <<>>
    ELSE ContextLoop(MapGet(map, id).messages, Len(MapGet(map, id).messages), 0, <<>>, maxTokens)

(***************************************************************************)
(* Inputs of importConversations: texts a caller can pass.                 *)
(***************************************************************************)
ImportedMessage(k) ==
    [id |-> 0 - k, content |-> Hello, role |-> "user", timestamp |-> ToISOString(0)]

ImportedConversation(i) ==
    [id |-> ConversationId(i - 1, "r1"), title |-> "Imported", model |-> "model-a",
     createdAt |-> ToISOString(0), updatedAt |-> ToISOString(i - 1),
     hasMessages |-> TRUE,
     messages |-> IF i = 1
                  THEN [k \in 1..(MAX_MESSAGES_PER_CONVERSATION + 1) |-> ImportedMessage(k)]
                  ELSE <<>>]

\* an array of one more conversation than the store's cap, the first of them
\* with one more message than the cap on messages
OverCapJson == ArrayJson([i \in 1..(MAX_CONVERSATIONS + 1) |-> ImportedConversation(i)])
\* an array whose second element has no messages property
MissingMessagesJson ==
    ArrayJson(<<ImportedConversation(1),
                [ImportedConversation(2) EXCEPT !.hasMessages = FALSE]>>)

ImportInputs == {InvalidJson, ObjectJson, MissingMessagesJson, OverCapJson}

\* an id no conversation of the store has
StaleId == ConversationId(0, "stale")
KnownIds == Keys(conversations) \cup {StaleId} \cup ({currentConversationId} \ {Null})

\* history kept beside the store: what each conversation present has ever held
Reset(map) == [id \in Keys(map) |-> MapGet(map, id).messages]

(***************************************************************************)
(* Init: a ConversationMemory constructed over an empty localStorage.      *)
(***************************************************************************)
(***************************************************************************)
(* The two services beside the chat as their constructors leave them.      *)
(* A user id `user_${Date.now()}_${random}` is its parts; a date is tagged  *)
(* with what it is, a Date object or the string JSON.stringify made of it. *)
(***************************************************************************)
NoUser ==
    [id |-> [prefix |-> "", t |-> 0, r |-> ""], email |-> "", name |-> "",
     createdAt |-> [kind |-> "null", t |-> 0]]

\* authState = {user: null, isAuthenticated: false}; neither item is stored
NewAuthService ==
    [authState |-> [user |-> NoUser, isAuthenticated |-> FALSE],
     item |-> <<>>,
     users |-> <<>>]

\* mediaRecorder is "null" or the state of the MediaRecorder object; events
\* are the events of the recorder that have been queued and not yet handled
NewAdvancedSpeechService ==
    [mediaRecorder |-> "null",
     onstop |-> "onstop",
     audioStream |-> FALSE,
     recordingState |-> [isRecording |-> FALSE, isPaused |-> FALSE],
     recordingTimer |-> FALSE,
     levelUpdateTimer |-> FALSE,
     intervals |-> 0,
     events |-> <<>>,
     starting |-> FALSE,
     stopped |-> "none"]

Init ==
    /\ conversations = <<>>
    /\ currentConversationId = Null
    /\ storage = NoItem
    /\ now = 0
    /\ msgSeq = 0
    /\ appended = <<>>
    /\ created = {}
    /\ last = [op |-> "new", id |-> Null]
    /\ ret = Null
    /\ ops = 0
    /\ env = [GROQ_API_KEY |-> "", OPENROUTER_API_KEYS |-> <<>>]
    /\ request = [route |-> "none"]
    /\ upstream = <<>>
    /\ response = [status |-> 0]
    /\ page = [mounted |-> FALSE, isLoading |-> FALSE, isImageMode |-> FALSE,
               input |-> "", imagePrompt |-> "", currentConversationId |-> Null,
               messages |-> <<>>, selectedModel |-> "deepseek/deepseek-r1-0528:free"]
    /\ inFlight = <<>>
    /\ authService = NewAuthService
    /\ advancedSpeech = NewAdvancedSpeechService

\* every step of the model is counted, and the run ends after MaxOps steps
Counted == ops < MaxOps /\ ops' = ops + 1

\* time passes
Tick ==
    /\ Counted
    /\ now' = now + 1
    /\ last' = [op |-> "tick", id |-> Null]
    /\ ret' = Null
    /\ UNCHANGED <<conversations, currentConversationId, storage, msgSeq,
                   appended, created>>

\* new ConversationMemory(): the page is loaded again over the same localStorage
Construct ==
    /\ Counted
    /\ conversations' = LoadFromStorage(storage)
    /\ currentConversationId' = Null
    /\ appended' = Reset(conversations')
    /\ created' = {}
    /\ last' = [op |-> "new", id |-> Null]
    /\ ret' = Null
    /\ UNCHANGED <<storage, now, msgSeq>>

NewConversation(id, model) ==
    [id |-> id, title |-> PLACEHOLDER_TITLE, messages |-> <<>>, model |-> model,
     createdAt |-> now, updatedAt |-> now]

CreateConversation(model, r, ok) ==
    LET id == ConversationId(now, r)
        map == LimitConversations(MapSet(conversations, NewConversation(id, model)))
    IN /\ Counted
       /\ conversations' = map
       /\ currentConversationId' = id
       /\ storage' = SaveToStorage(map, ok)
       /\ appended' = [k \in Keys(map) |-> IF k = id THEN <<>> ELSE appended[k]]
       /\ created' = (created \cup {id}) \cap Keys(map)
       /\ last' = [op |-> "createConversation", id |-> id]
       /\ ret' = id
       /\ UNCHANGED <<now, msgSeq>>

\* the conversation after addMessage has pushed newMessage
Pushed(conv, newMessage) ==
    LET messages == Append(conv.messages, newMessage)
    IN [conv EXCEPT
          !.updatedAt = now,
          !.title = IF Len(messages) = 1 /\ newMessage.role = "user"
                    THEN TitleOf(newMessage.content) ELSE conv.title,
          !.messages = LimitMessages(messages)]

\* mutant: saveToStorage runs before the check that the conversation exists
AddMessageSavesFirst(conversationId, content, role, ok) ==
    /\ Counted
    /\ last' = [op |-> "addMessage", id |-> conversationId]
    /\ ret' = Null
    /\ IF ~MapHas(conversations, conversationId)
       THEN /\ storage' = SaveToStorage(conversations, ok)
            /\ UNCHANGED <<conversations, currentConversationId, now, msgSeq,
                           appended, created>>
       ELSE LET newMessage == [id |-> msgSeq + 1, content |-> content, role |-> role,
                               timestamp |-> now]
                map == MapSet(conversations,
                              Pushed(MapGet(conversations, conversationId), newMessage))
            IN /\ msgSeq' = msgSeq + 1
               /\ conversations' = map
               /\ storage' = SaveToStorage(map, ok)
               /\ appended' = [appended EXCEPT ![conversationId] = Append(@, newMessage)]
               /\ UNCHANGED <<currentConversationId, now, created>>

AddMessage(conversationId, content, role, ok) ==
    /\ Counted
    /\ last' = [op |-> "addMessage", id |-> conversationId]
    /\ ret' = Null
    /\ IF ~MapHas(conversations, conversationId)
       THEN UNCHANGED <<conversations, currentConversationId, storage, now, msgSeq,
                        appended, created>>
       ELSE LET newMessage == [id |-> msgSeq + 1, content |-> content, role |-> role,
                               timestamp |-> now]
                map == MapSet(conversations,
                              Pushed(MapGet(conversations, conversationId), newMessage))
            IN /\ msgSeq' = msgSeq + 1
               /\ conversations' = map
               /\ storage' = SaveToStorage(map, ok)
               /\ appended' = [appended EXCEPT ![conversationId] = Append(@, newMessage)]
               /\ UNCHANGED <<currentConversationId, now, created>>

\* mutant: the marker is cleared whichever conversation is deleted
DeleteConversationClearsMarker(id, ok) ==
    LET map == MapDelete(conversations, id)
    IN /\ Counted
       /\ conversations' = map
       /\ currentConversationId' = Null
       /\ storage' = SaveToStorage(map, ok)
       /\ appended' = [k \in Keys(map) |-> appended[k]]
       /\ created' = created \cap Keys(map)
       /\ last' = [op |-> "deleteConversation", id |-> id]
       /\ ret' = Null
       /\ UNCHANGED <<now, msgSeq>>

\* mutant: a write that throws undoes the deletion
DeleteConversationUnlessWriteFails(id, ok) ==
    LET map == IF ok THEN MapDelete(conversations, id) ELSE conversations
    IN /\ Counted
       /\ conversations' = map
       /\ currentConversationId' = IF currentConversationId = id /\ ok THEN Null
                                   ELSE currentConversationId
       /\ storage' = SaveToStorage(map, ok)
       /\ appended' = [k \in Keys(map) |-> appended[k]]
       /\ created' = created \cap Keys(map)
       /\ last' = [op |-> "deleteConversation", id |-> id]
       /\ ret' = Null
       /\ UNCHANGED <<now, msgSeq>>

DeleteConversation(id, ok) ==
    LET map == MapDelete(conversations, id)
    IN /\ Counted
       /\ conversations' = map
       /\ currentConversationId' = IF currentConversationId = id THEN Null
                                   ELSE currentConversationId
       /\ storage' = SaveToStorage(map, ok)
       /\ appended' = [k \in Keys(map) |-> appended[k]]
       /\ created' = created \cap Keys(map)
       /\ last' = [op |-> "deleteConversation", id |-> id]
       /\ ret' = Null
       /\ UNCHANGED <<now, msgSeq>>

SetCurrentConversation(id) ==
    /\ Counted
    /\ currentConversationId' = id
    /\ last' = [op |-> "setCurrentConversation", id |-> id]
    /\ ret' = Null
    /\ UNCHANGED <<conversations, storage, now, msgSeq, appended, created>>

GetContextMessages(conversationId, maxTokens) ==
    /\ Counted
    /\ last' = [op |-> "getContextMessages", id |-> conversationId, maxTokens |-> maxTokens]
    /\ ret' = ContextMessages(conversations, conversationId, maxTokens)
    /\ UNCHANGED <<conversations, currentConversationId, storage, now, msgSeq,
                   appended, created>>

ClearAllConversations(ok) ==
    /\ Counted
    /\ conversations' = <<>>
    /\ currentConversationId' = Null
    /\ storage' = SaveToStorage(<<>>, ok)
    /\ appended' = <<>>
    /\ created' = {}
    /\ last' = [op |-> "clearAllConversations", id |-> Null]
    /\ ret' = Null
    /\ UNCHANGED <<now, msgSeq>>

\* JSON.stringify(data, null, 2)
ExportConversations ==
    /\ Counted
    /\ last' = [op |-> "exportConversations", id |-> Null]
    /\ ret' = Stringify(conversations)
    /\ UNCHANGED <<conversations, currentConversationId, storage, now, msgSeq,
                   appended, created>>

\* the Map and the return value importConversations leaves
Imported(map, jsonData) ==
    IF jsonData.kind = "array"
    THEN LET r == ForEachSet(<<>>, jsonData.elems)
         IN [map |-> r.map, ret |-> ~r.threw]
    ELSE [map |-> map, ret |-> FALSE]

ImportConversations(jsonData, ok) ==
    LET r == Imported(conversations, jsonData)
    IN /\ Counted
       /\ conversations' = r.map
       /\ storage' = IF r.ret THEN SaveToStorage(r.map, ok) ELSE storage
       /\ appended' = IF jsonData.kind = "array" THEN Reset(r.map) ELSE appended
       /\ created' = IF jsonData.kind = "array" THEN {} ELSE created
       /\ last' = [op |-> "importConversations", id |-> Null, jsonData |-> jsonData]
       /\ ret' = r.ret
       /\ UNCHANGED <<currentConversationId, now, msgSeq>>

(***************************************************************************)
(* Spec: the store through its whole interface.  The text of the messages  *)
(* plays no part in the retention rules, so one text is appended here;     *)
(* SpecTitle and SpecWindow vary the text.                                 *)
(***************************************************************************)
Next ==
    \/ Tick /\ UNCHANGED <<server, ui, aside>>
    \/ Construct /\ UNCHANGED <<server, ui, aside>>
    \/ \E model \in Models, r \in RandomSuffixes, ok \in Writes :
          CreateConversation(model, r, ok) /\ UNCHANGED <<server, ui, aside>>
    \/ \E id \in KnownIds, role \in Roles, ok \in Writes :
          AddMessage(id, Hello, role, ok) /\ UNCHANGED <<server, ui, aside>>
    \/ \E id \in KnownIds, ok \in Writes : DeleteConversation(id, ok) /\ UNCHANGED <<server, ui, aside>>
    \/ \E id \in KnownIds : SetCurrentConversation(id) /\ UNCHANGED <<server, ui, aside>>
    \/ \E ok \in Writes : ClearAllConversations(ok) /\ UNCHANGED <<server, ui, aside>>
    \/ ExportConversations /\ UNCHANGED <<server, ui, aside>>
    \/ \E jsonData \in ImportInputs \cup {Stringify(conversations)}, ok \in Writes :
          ImportConversations(jsonData, ok) /\ UNCHANGED <<server, ui, aside>>

Spec == Init /\ [][Next]_vars

(***************************************************************************)
(* SpecTitle: conversations are created and messages of every role and of  *)
(* lengths around the title's limit are appended.                          *)
(***************************************************************************)
NextTitle ==
    \/ \E model \in Models, r \in RandomSuffixes, ok \in Writes :
          CreateConversation(model, r, ok) /\ UNCHANGED <<server, ui, aside>>
    \/ \E id \in KnownIds, content \in Contents, role \in Roles, ok \in Writes :
          AddMessage(id, content, role, ok) /\ UNCHANGED <<server, ui, aside>>

SpecTitle == Init /\ [][NextTitle]_vars

(***************************************************************************)
(* SpecWindow: getContextMessages on conversations built by appending      *)
(* messages of several lengths, under budgets around their estimates.      *)
(***************************************************************************)
NextWindow ==
    \/ \E model \in Models, r \in RandomSuffixes, ok \in Writes :
          CreateConversation(model, r, ok) /\ UNCHANGED <<server, ui, aside>>
    \/ \E id \in KnownIds, content \in WindowContents, ok \in Writes :
          AddMessage(id, content, "user", ok) /\ UNCHANGED <<server, ui, aside>>
    \/ \E id \in KnownIds, maxTokens \in Budgets :
          GetContextMessages(id, maxTokens) /\ UNCHANGED <<server, ui, aside>>

SpecWindow == Init /\ [][NextWindow]_vars

\* the history variables follow the store
HistoryOK ==
    /\ Keys(conversations) = DOMAIN appended
    /\ created \subseteq Keys(conversations)
    /\ Cardinality(Keys(conversations)) = Len(conversations)

(***************************************************************************)
(* C1.  After addMessage returns, the conversation it appended to holds at *)
(* most MAX_MESSAGES_PER_CONVERSATION messages, and they are the most      *)
(* recent min(k, M) of the k messages the conversation has been given, in  *)
(* the order they were given; a conversation made by createConversation    *)
(* is in that state at all times.                                          *)
(***************************************************************************)
MostRecent(history, m) ==
    SubSeq(history, Len(history) - Min(Len(history), m) + 1, Len(history))

C1_MessagesAreMostRecent ==
    \A i \in DOMAIN conversations :
        LET conv == conversations[i]
        IN (conv.id \in created \/ (last.op = "addMessage" /\ last.id = conv.id))
           => /\ Len(conv.messages) <= MAX_MESSAGES_PER_CONVERSATION
              /\ conv.messages = MostRecent(appended[conv.id], MAX_MESSAGES_PER_CONVERSATION)

\* a created conversation has been given more messages than the cap
C1_Witness ==
    /\ last.op = "addMessage"
    /\ last.id \in created
    /\ Len(appended[last.id]) > MAX_MESSAGES_PER_CONVERSATION
    /\ Len(MapGet(conversations, last.id).messages) = MAX_MESSAGES_PER_CONVERSATION

(***************************************************************************)
(* C2.  The store never holds more than MAX_CONVERSATIONS conversations.   *)
(***************************************************************************)
C2_AtMostMaxConversations == Len(conversations) <= MAX_CONVERSATIONS

(***************************************************************************)
(* C3.  A createConversation that makes the count exceed MAX_CONVERSATIONS *)
(* removes exactly one conversation, one whose updatedAt is the oldest of  *)
(* those present before the eviction (the new one included), and exactly   *)
(* MAX_CONVERSATIONS conversations remain.                                 *)
(***************************************************************************)
CreateExceedsCap ==
    /\ last'.op = "createConversation"
    /\ ~MapHas(conversations, last'.id)
    /\ Len(conversations) + 1 > MAX_CONVERSATIONS

EvictsOneOldest ==
    \E e \in Keys(conversations) \cup {last'.id} :
        /\ Keys(conversations') = (Keys(conversations) \cup {last'.id}) \ {e}
        /\ Len(conversations') = Len(conversations)
        /\ LET evictedAt == IF e = last'.id THEN now
                            ELSE MapGet(conversations, e).updatedAt
           IN /\ evictedAt <= now
              /\ \A i \in DOMAIN conversations : evictedAt <= conversations[i].updatedAt

C3_EvictionKeepsNewest ==
    [][CreateExceedsCap => (EvictsOneOldest /\ Len(conversations') = MAX_CONVERSATIONS)]_vars

\* the whole of C3 holds of a store that was within its cap
C3_FromWithinCap ==
    [][(CreateExceedsCap /\ Len(conversations) <= MAX_CONVERSATIONS)
          => (EvictsOneOldest /\ Len(conversations') = MAX_CONVERSATIONS)]_vars

(***************************************************************************)
(* C4.  importConversations is atomic: when it returns true the store      *)
(* holds exactly the conversations of the snapshot, and on malformed input *)
(* (not JSON, not an array, an element without messages) it returns false  *)
(* and the conversations in memory are what they were before the call.     *)
(***************************************************************************)
Malformed(jsonData) ==
    \/ jsonData.kind # "array"
    \/ \E i \in DOMAIN jsonData.elems : ~jsonData.elems[i].hasMessages

C4_ImportAtomic ==
    [][last'.op = "importConversations" =>
          /\ ret' = ~Malformed(last'.jsonData)
          /\ ret' => conversations' =
                        [i \in DOMAIN last'.jsonData.elems |->
                            ReviveConversation(last'.jsonData.elems[i])]
          /\ ~ret' => conversations' = conversations]_vars

(***************************************************************************)
(* C5.  getContextMessages on a non-empty conversation returns, for every  *)
(* budget (zero and negative ones too), at least one message, and the      *)
(* result is a contiguous suffix of the conversation's messages in their   *)
(* order, ending with the most recent one; on an empty conversation or an  *)
(* unknown id it returns the empty list.                                   *)
(***************************************************************************)
MessagesOf(id) == IF MapHas(conversations, id) THEN MapGet(conversations, id).messages ELSE <<>>
Suffix(s, k) == SubSeq(s, Len(s) - k + 1, Len(s))

C5_ContextIsNonEmptySuffix ==
    last.op = "getContextMessages" =>
        LET messages == MessagesOf(last.id)
        IN IF messages = <<>> THEN ret = <<>>
           ELSE /\ Len(ret) >= 1
                /\ Len(ret) <= Len(messages)
                /\ ret = Suffix(messages, Len(ret))

\* a budget of zero or less on a conversation of several messages
C5_Witness ==
    /\ last.op = "getContextMessages"
    /\ last.maxTokens <= 0
    /\ Len(MessagesOf(last.id)) >= 2
    /\ Len(ret) >= 1

(***************************************************************************)
(* C6.  The result is the longest suffix whose summed estimate (content    *)
(* length / 4, rounded up, per message) is within the budget; only when    *)
(* the most recent message alone exceeds the budget is the budget          *)
(* exceeded, and the result is then that one message.  Two or more         *)
(* messages returned are always within the budget.                         *)
(***************************************************************************)
\* the least n with 4 * n >= length
CeilQuarter(length) == CHOOSE n \in 0..length : 4 * n >= length /\ 4 * (n - 1) < length

RECURSIVE SumOfEstimates(_)
SumOfEstimates(s) ==
    IF s = <<>> THEN 0 ELSE CeilQuarter(Len(Head(s).content)) + SumOfEstimates(Tail(s))

C6_ContextIsLongestFit ==
    (last.op = "getContextMessages" /\ MessagesOf(last.id) # <<>>) =>
        LET messages == MessagesOf(last.id)
            budget == last.maxTokens
            fits == {k \in 1..Len(messages) : SumOfEstimates(Suffix(messages, k)) <= budget}
        IN /\ IF fits = {} THEN ret = Suffix(messages, 1)
              ELSE /\ Len(ret) \in fits
                   /\ \A k \in fits : k <= Len(ret)
                   /\ ret = Suffix(messages, Len(ret))
           /\ Len(ret) >= 2 => SumOfEstimates(ret) <= budget

\* the budget cuts the conversation: several messages returned, some left out
C6_Witness ==
    /\ last.op = "getContextMessages"
    /\ Len(ret) >= 2
    /\ Len(ret) < Len(MessagesOf(last.id))

(***************************************************************************)
(* C7.  The title of a conversation is the placeholder until a user        *)
(* message is appended to it; from then on it is the leading substring     *)
(* (first 50 characters, plus "..." if longer) of the first user message   *)
(* appended, whatever is appended afterwards.                              *)
(***************************************************************************)
LeadingSubstring(content) ==
    IF Len(content) <= 50 THEN content ELSE SubSeq(content, 1, 50) \o "..."

UserMessages(history) == SelectSeq(history, LAMBDA m : m.role = "user")

C7_TitleIsFirstUserMessage ==
    \A id \in created :
        MapGet(conversations, id).title =
            IF UserMessages(appended[id]) = <<>> THEN "New Conversation"
            ELSE LeadingSubstring(UserMessages(appended[id])[1].content)

(***************************************************************************)
(* C8.  Appending the first message of a created conversation with role    *)
(* user sets the title to the content when it has at most 50 characters    *)
(* and to its first 50 characters followed by "..." when it is longer, and *)
(* the conversation then holds one message; a first message with role      *)
(* assistant leaves the title at the placeholder.                          *)
(***************************************************************************)
C8_FirstMessageSetsTitle ==
    (last.op = "addMessage" /\ last.id \in created /\ Len(appended[last.id]) = 1) =>
        LET conv == MapGet(conversations, last.id)
            first == appended[last.id][1]
        IN /\ Len(conv.messages) = 1
           /\ conv.messages[1].content = first.content
           /\ conv.title = IF first.role = "user" THEN LeadingSubstring(first.content)
                           ELSE "New Conversation"

\* a first user message longer than the limit has been appended
C8_Witness ==
    /\ last.op = "addMessage"
    /\ last.id \in created
    /\ Len(appended[last.id]) = 1
    /\ appended[last.id][1].role = "user"
    /\ Len(appended[last.id][1].content) > 50
    /\ MapGet(conversations, last.id).title # "New Conversation"

(***************************************************************************)
(* C9.  addMessage with an id that is not in the store changes nothing:    *)
(* the conversations, the current marker and the durable copy are as       *)
(* before the call.                                                        *)
(***************************************************************************)
C9_AddToUnknownIsNoOp ==
    [][(last'.op = "addMessage" /\ ~MapHas(conversations, last'.id))
          => UNCHANGED <<conversations, currentConversationId, storage>>]_vars

\* addMessage has been called with an id the non-empty store does not hold
C9_Witness ==
    /\ last.op = "addMessage"
    /\ ~MapHas(conversations, last.id)
    /\ conversations # <<>>

(***************************************************************************)
(* C10.  importConversations of the result of exportConversations returns  *)
(* true and leaves the same conversations: same ids, titles and models,    *)
(* and for each the same messages in the same order with the same content. *)
(***************************************************************************)
Payload(map) ==
    [i \in DOMAIN map |->
        [id |-> map[i].id, title |-> map[i].title, model |-> map[i].model,
         messages |-> [k \in DOMAIN map[i].messages |->
                          [id |-> map[i].messages[k].id,
                           content |-> map[i].messages[k].content,
                           role |-> map[i].messages[k].role]]]]

C10_ExportImportRoundTrip ==
    [][(last'.op = "importConversations" /\ last'.jsonData = Stringify(conversations))
          => (ret' = TRUE /\ Payload(conversations') = Payload(conversations))]_vars

\* a store holding a titled conversation made here, with messages, was imported back
C10_Witness ==
    /\ last.op = "importConversations"
    /\ ret = TRUE
    /\ last.jsonData = Stringify(conversations)
    /\ \E i \in DOMAIN conversations :
          /\ conversations[i].title = Hello
          /\ Len(conversations[i].messages) >= 2

(***************************************************************************)
(* C11.  After createConversation(model) returns an id, the store holds a  *)
(* conversation of that id with that model, no messages and the            *)
(* placeholder title, and the current marker is that id; also when the     *)
(* call evicts.                                                            *)
(***************************************************************************)
C11_CreatedIsPresentAndCurrent ==
    last.op = "createConversation" =>
        /\ currentConversationId = ret
        /\ MapHas(conversations, ret)
        /\ MapGet(conversations, ret).model \in Models
        /\ MapGet(conversations, ret).messages = <<>>
        /\ MapGet(conversations, ret).title = "New Conversation"

\* C11 holds of a create with a fresh id into a store within its cap that is
\* below the cap or holds a conversation not updated later than the new one
C11_UnlessNewIsOldest ==
    [][(/\ last'.op = "createConversation"
        /\ ~MapHas(conversations, ret')
        /\ Len(conversations) <= MAX_CONVERSATIONS
        /\ \/ Len(conversations) < MAX_CONVERSATIONS
           \/ \E i \in DOMAIN conversations : conversations[i].updatedAt <= now)
          => /\ currentConversationId' = ret'
             /\ MapHas(conversations', ret')
             /\ MapGet(conversations', ret').messages = <<>>
             /\ MapGet(conversations', ret').title = "New Conversation"]_vars

(***************************************************************************)
(* C12.  After createConversation, addMessage on a conversation of the     *)
(* store, deleteConversation, clearAllConversations or importConversations *)
(* returns, with writes that succeed, the item under the storage key is    *)
(* the snapshot of the conversations in memory, and a store constructed    *)
(* from it holds the same conversations.                                   *)
(***************************************************************************)
Mutated ==
    \/ last.op \in {"createConversation", "deleteConversation",
                    "clearAllConversations", "importConversations"}
    \/ last.op = "addMessage" /\ MapHas(conversations, last.id)

C12_DurableCopyFollowsMemory ==
    Mutated => /\ storage = Stringify(conversations)
               /\ Payload(LoadFromStorage(storage)) = Payload(conversations)

\* C12 holds after every mutating operation but an import that returned false
C12_UnlessImportFailed ==
    (Mutated /\ ~(last.op = "importConversations" /\ ret = FALSE))
        => /\ storage = Stringify(conversations)
           /\ Payload(LoadFromStorage(storage)) = Payload(conversations)

(***************************************************************************)
(* C13.  deleteConversation(id) removes the conversation of that id and no *)
(* other, leaves the others as they were, and sets the current marker to   *)
(* none exactly when it pointed at the deleted id; otherwise the marker is *)
(* unchanged.                                                              *)
(***************************************************************************)
C13_DeleteRemovesOnlyThatOne ==
    [][last'.op = "deleteConversation" =>
          /\ Keys(conversations') = Keys(conversations) \ {last'.id}
          /\ Len(conversations') = Cardinality(Keys(conversations'))
          /\ \A k \in Keys(conversations') :
                MapGet(conversations', k) = MapGet(conversations, k)
          /\ currentConversationId' =
                IF currentConversationId = last'.id THEN Null ELSE currentConversationId]_vars

\* a conversation was deleted while the marker pointed at another one, which stays
C13_Witness ==
    /\ last.op = "deleteConversation"
    /\ last.id # StaleId
    /\ currentConversationId # Null
    /\ MapHas(conversations, currentConversationId)

(***************************************************************************)
(* C14.  createConversation never returns the id of a conversation that is *)
(* already in the store, and so never overwrites a conversation.           *)
(***************************************************************************)
C14_CreatedIdIsFresh ==
    [][last'.op = "createConversation" =>
          /\ ~MapHas(conversations, ret')
          /\ \A k \in Keys(conversations) \cap Keys(conversations') :
                MapGet(conversations', k) = MapGet(conversations, k)]_vars

(***************************************************************************)
(* The route handlers (src/unnamed/part_000).                              *)
(*                                                                         *)
(* A JSON object is a function from the names of the fields it has, so a   *)
(* field that is absent is a name outside its DOMAIN.  A temperature is    *)
(* counted in tenths (7 is 0.7).  A body read from upstream is tagged with *)
(* its kind, as the items of the store are.                                *)
(***************************************************************************)
DEFAULT_TEMPERATURE == 7
DEFAULT_MAX_TOKENS == 2000
DEFAULT_CHAT_MODEL == "deepseek/deepseek-r1-0528:free"
SYSTEM_PROMPT == "You are MOD AI Assistant"
CHAT_COMPLETIONS_URL == "https://openrouter.ai/api/v1/chat/completions"

\* the list of isGroqModel
groqModels ==
    <<"llama-3.3-70b-versatile", "llama-3.1-8b-instant", "llama3-70b-8192",
      "llama3-8b-8192", "gemma2-9b-it">>

\* mutant: every model whose id starts with "llama" goes to Groq, and no other
isGroqModelByPrefix(modelId) == Len(modelId) >= 5 /\ SubSeq(modelId, 1, 5) = "llama"

isGroqModel(modelId) == \E i \in DOMAIN groqModels : groqModels[i] = modelId

\* an object without fields
EmptyObject == [f \in {} |-> ""]

\* const { f = default } = object
Field(object, f, default) == IF f \in DOMAIN object THEN object[f] ELSE default

\* object.f || default, for a field that holds a number when present
OrDefault(object, f, default) ==
    IF f \in DOMAIN object /\ object[f] # 0 THEN object[f] ELSE default

\* mutant: without a key configured an empty key is returned
getRandomApiKeyOrEmpty(keys, random) ==
    [threw |-> FALSE, value |-> IF Len(keys) = 0 THEN "" ELSE keys[random]]

\* OPENROUTER_API_KEYS[Math.floor(Math.random() * length)], or the throw
getRandomApiKey(keys, random) ==
    IF Len(keys) = 0
    THEN [threw |-> TRUE, message |-> "No OpenRouter API keys configured"]
    ELSE [threw |-> FALSE, value |-> keys[random]]

\* the values Math.floor(Math.random() * length) can take, as indices from 1
RandomIndices(keys) == IF Len(keys) = 0 THEN {1} ELSE 1..Len(keys)

\* the HTTP statuses of the model
Statuses == {200, 400, 429, 500}

\* `${status}`
String(status) ==
    CASE status = 200 -> "200" [] status = 400 -> "400"
      [] status = 429 -> "429" [] status = 500 -> "500"

\* errorData.error?.message is truthy
HasMessage(errorData) ==
    errorData.kind = "errorObject" /\ errorData.hasMessage /\ errorData.message # ""

\* errorData.error?.message || `API error: ${response.status}`, or the throw
\* of reading a property of null
UpstreamErrorText(errorData, status) ==
    CASE errorData.kind = "null" ->
            [threw |-> TRUE,
             message |-> "Cannot read properties of null (reading 'error')"]
      [] HasMessage(errorData) ->
            [threw |-> FALSE, value |-> errorData.message]
      [] OTHER ->
            [threw |-> FALSE, value |-> "API error: " \o String(status)]

\* response.json().catch(() => ({ error: "Unknown error" }))
JsonOrUnknownError(body) ==
    IF body.kind = "notJson" THEN [kind |-> "errorString", error |-> "Unknown error"]
    ELSE body

\* the catch of the chat handler
ChatFailed(calls, message) ==
    [upstream |-> calls,
     response |-> [status |-> 500,
                   body |-> [error |-> "Failed to generate response",
                             details |-> message]]]

\* the success response of the chat handler
ChatSucceeded(calls, result, model, provider) ==
    [upstream |-> calls,
     response |-> [status |-> 200,
                   body |-> [message |-> result.text,
                             model |-> model,
                             provider |-> provider,
                             metadata |->
                                [tokens |-> result.tokens,
                                 finishReason |-> IF result.finishReason = ""
                                                  THEN "stop"
                                                  ELSE result.finishReason]]]]

\* mutant: a call that failed is made a second time before the request fails
OpenRouterSettledWithRetry(call, reply, model) ==
    IF reply.kind = "rejected" THEN ChatFailed(<<call, call>>, reply.message)
    ELSE IF ~reply.ok
    THEN LET text == UpstreamErrorText(JsonOrUnknownError(reply.body), reply.status)
         IN ChatFailed(<<call, call>>, IF text.threw THEN text.message ELSE text.value)
    ELSE IF reply.body.kind = "notJson"
    THEN ChatFailed(<<call>>, "Unexpected token in JSON")
    ELSE IF reply.body.kind = "null"
    THEN ChatFailed(<<call>>, "Cannot read properties of null (reading 'choices')")
    ELSE IF \/ reply.body.kind # "completion"
            \/ ~reply.body.hasChoices
            \/ Len(reply.body.choices) = 0
            \/ ~reply.body.choices[1].hasMessage
    THEN ChatFailed(<<call>>, "Invalid response format from API")
    ELSE ChatSucceeded(<<call>>,
                       [text |-> reply.body.choices[1].content,
                        tokens |-> reply.body.total_tokens,
                        finishReason |-> reply.body.choices[1].finish_reason],
                       model, "OpenRouter")

\* mutant: the first choice is used without the test that it has a message
OpenRouterSettledUnchecked(call, reply, model) ==
    IF reply.kind = "rejected" THEN ChatFailed(<<call>>, reply.message)
    ELSE IF ~reply.ok
    THEN LET text == UpstreamErrorText(JsonOrUnknownError(reply.body), reply.status)
         IN ChatFailed(<<call>>, IF text.threw THEN text.message ELSE text.value)
    ELSE IF reply.body.kind = "notJson"
    THEN ChatFailed(<<call>>, "Unexpected token in JSON")
    ELSE IF reply.body.kind = "null"
    THEN ChatFailed(<<call>>, "Cannot read properties of null (reading 'choices')")
    ELSE IF \/ reply.body.kind # "completion"
            \/ ~reply.body.hasChoices
            \/ Len(reply.body.choices) = 0
    THEN ChatFailed(<<call>>, "Invalid response format from API")
    ELSE ChatSucceeded(<<call>>,
                       [text |-> reply.body.choices[1].content,
                        tokens |-> reply.body.total_tokens,
                        finishReason |-> reply.body.choices[1].finish_reason],
                       model, "OpenRouter")

\* the OpenRouter branch after fetch has settled with `reply`
OpenRouterSettled(call, reply, model) ==
    IF reply.kind = "rejected" THEN ChatFailed(<<call>>, reply.message)
    ELSE IF ~reply.ok
    THEN LET text == UpstreamErrorText(JsonOrUnknownError(reply.body), reply.status)
         IN ChatFailed(<<call>>, IF text.threw THEN text.message ELSE text.value)
    ELSE IF reply.body.kind = "notJson"
    THEN ChatFailed(<<call>>, "Unexpected token in JSON")
    ELSE IF reply.body.kind = "null"
    THEN ChatFailed(<<call>>, "Cannot read properties of null (reading 'choices')")
    ELSE IF \/ reply.body.kind # "completion"
            \/ ~reply.body.hasChoices
            \/ Len(reply.body.choices) = 0
            \/ ~reply.body.choices[1].hasMessage
    THEN ChatFailed(<<call>>, "Invalid response format from API")
    ELSE ChatSucceeded(<<call>>,
                       [text |-> reply.body.choices[1].content,
                        tokens |-> reply.body.total_tokens,
                        finishReason |-> reply.body.choices[1].finish_reason],
                       model, "OpenRouter")

\* POST of the chat route: the calls it makes upstream and its response, for
\* a request body, the keys configured, the random index and what the
\* upstream call settles with
ChatPOST(body, e, random, reply) ==
    LET message == Field(body, "message", "")
        messages == Field(body, "messages", <<>>)
        model == Field(body, "model", DEFAULT_CHAT_MODEL)
        options == Field(body, "options", EmptyObject)
        apiMessages ==
            <<[role |-> "system", content |-> SYSTEM_PROMPT]>>
            \o [i \in 1..Len(messages) |->
                    [role |-> messages[i].role, content |-> messages[i].content]]
            \o <<[role |-> "user", content |-> message]>>
        temperature == OrDefault(options, "temperature", DEFAULT_TEMPERATURE)
        maxTokens == OrDefault(options, "maxTokens", DEFAULT_MAX_TOKENS)
        apiKey == getRandomApiKey(e.OPENROUTER_API_KEYS, random)
    IN  IF message = ""
        THEN [upstream |-> <<>>,
              response |-> [status |-> 400, body |-> [error |-> "Message is required"]]]
        ELSE IF isGroqModel(model)
        THEN IF e.GROQ_API_KEY = ""
             THEN ChatFailed(<<>>, "Groq API key not configured")
             ELSE LET call == [provider |-> "Groq", model |-> model,
                               messages |-> apiMessages,
                               temperature |-> temperature, maxTokens |-> maxTokens]
                  IN IF reply.kind = "rejected"
                     THEN ChatFailed(<<call>>, reply.message)
                     ELSE ChatSucceeded(<<call>>, reply, model, "Groq")
        ELSE IF apiKey.threw
             THEN ChatFailed(<<>>, apiKey.message)
             ELSE OpenRouterSettled(
                     [provider |-> "OpenRouter", url |-> CHAT_COMPLETIONS_URL,
                      apiKey |-> apiKey.value, model |-> model,
                      messages |-> apiMessages,
                      temperature |-> temperature, max_tokens |-> maxTokens,
                      stream |-> FALSE],
                     reply, model)

(***************************************************************************)
(* The image-generation route.  A URL is its path and its query            *)
(* parameters, before encodeURIComponent.                                  *)
(***************************************************************************)
DEFAULT_IMAGE_MODEL == "black-forest-labs/flux-schnell"
DEFAULT_SIZE == "1024x1024"
IMAGE_GENERATIONS_URL == "https://openrouter.ai/api/v1/images/generations"
PLACEHOLDER_PATH == "/placeholder.svg"
PROMPT_LENGTH == 100

\* s.split(sep), for a separator of one character
Split(s, sep) ==
    LET at == {i \in 1..Len(s) : SubSeq(s, i, i) = sep}
        \* the place of the k-th separator
        place(k) == CHOOSE i \in at : Cardinality({j \in at : j < i}) = k - 1
    IN [k \in 1..(Cardinality(at) + 1) |->
           SubSeq(s, IF k = 1 THEN 1 ELSE place(k - 1) + 1,
                     IF k = Cardinality(at) + 1 THEN Len(s) ELSE place(k) - 1)]

UPPER == "ABCDEFGHIJKLMNOPQRSTUVWXYZ"
LOWER == "abcdefghijklmnopqrstuvwxyz"

\* s.toLowerCase(), for the letters A to Z, done by halves
RECURSIVE ToLowerCase(_)
ToLowerCase(s) ==
    IF Len(s) = 0 THEN ""
    ELSE IF Len(s) = 1
    THEN LET at == {i \in 1..Len(UPPER) : SubSeq(UPPER, i, i) = s}
         IN IF at = {} THEN s ELSE LET i == CHOOSE i \in at : TRUE IN SubSeq(LOWER, i, i)
    ELSE ToLowerCase(SubSeq(s, 1, Len(s) \div 2))
            \o ToLowerCase(SubSeq(s, Len(s) \div 2 + 1, Len(s)))

\* `${Number(part)}`, for a part without sign, point or exponent
IsDigits(s) ==
    \A i \in 1..Len(s) : \E d \in 1..10 : SubSeq("0123456789", d, d) = SubSeq(s, i, i)

NumberText(part) == IF part = "" THEN "0" ELSE IF IsDigits(part) THEN part ELSE "NaN"

\* keywords.some((word) => list.includes(word))
SomeIn(keywords, list) == \E i \in DOMAIN keywords : keywords[i] \in list

generateAdvancedPlaceholder(prompt, size) ==
    LET parts == Split(size, "x")
        width == NumberText(parts[1])
        height == IF Len(parts) >= 2 THEN NumberText(parts[2]) ELSE "undefined"
        keywords == Split(ToLowerCase(prompt), " ")
        look ==
            IF SomeIn(keywords, {"person", "human", "man", "woman", "portrait"})
            THEN [category |-> "portrait", color |-> "purple"]
            ELSE IF SomeIn(keywords, {"landscape", "nature", "mountain", "forest", "ocean"})
            THEN [category |-> "landscape", color |-> "green"]
            ELSE IF SomeIn(keywords, {"city", "building", "urban", "street"})
            THEN [category |-> "urban", color |-> "gray"]
            ELSE IF SomeIn(keywords, {"animal", "cat", "dog", "bird", "wildlife"})
            THEN [category |-> "animal", color |-> "orange"]
            ELSE IF SomeIn(keywords, {"food", "cooking", "meal", "restaurant"})
            THEN [category |-> "food", color |-> "red"]
            ELSE [category |-> "abstract", color |-> "blue"]
        truncatedPrompt ==
            IF Len(prompt) > PROMPT_LENGTH
            THEN SubSeq(prompt, 1, PROMPT_LENGTH) \o "..." ELSE prompt
    IN [path |-> PLACEHOLDER_PATH, height |-> height, width |-> width,
        text |-> truncatedPrompt, category |-> look.category, color |-> look.color]

\* object.f || default, for a field that holds a string when present
OrDefaultText(object, f, default) ==
    IF f \in DOMAIN object /\ object[f] # "" THEN object[f] ELSE default

\* the response after the attempt upstream has failed
ImageFallback(calls, prompt, model, options, t) ==
    [upstream |-> calls,
     response |->
        [status |-> 200,
         body |-> [images |-> <<[url |-> generateAdvancedPlaceholder(
                                            prompt, OrDefaultText(options, "size", DEFAULT_SIZE)),
                                 prompt |-> prompt, model |-> model]>>,
                   metadata |-> [model |-> model, prompt |-> prompt,
                                 timestamp |-> ToISOString(t),
                                 provider |-> "MOD AI Placeholder",
                                 fallback |-> TRUE]]]]

\* the outer catch of the image route
ImageEmergency(calls, message, t) ==
    [upstream |-> calls,
     response |->
        [status |-> 200,
         body |-> [images |-> <<[url |-> [path |-> PLACEHOLDER_PATH, height |-> "512",
                                          width |-> "512",
                                          text |-> "Image Generation Error"],
                                 prompt |-> "Error generating image",
                                 model |-> "fallback"]>>,
                   metadata |-> [model |-> "fallback",
                                 prompt |-> "Error generating image",
                                 timestamp |-> ToISOString(t),
                                 provider |-> "Emergency Fallback"],
                   error |-> "Image generation failed",
                   details |-> message,
                   fallback |-> TRUE]]]

\* POST of the image-generation route
ImagePOST(body, e, random, reply, t) ==
    LET prompt == Field(body, "prompt", "")
        model == Field(body, "model", DEFAULT_IMAGE_MODEL)
        options == Field(body, "options", EmptyObject)
        apiKey == getRandomApiKey(e.OPENROUTER_API_KEYS, random)
        call == [provider |-> "OpenRouter", url |-> IMAGE_GENERATIONS_URL,
                 apiKey |-> apiKey.value, model |-> model, prompt |-> prompt,
                 n |-> OrDefault(options, "count", 1),
                 size |-> OrDefaultText(options, "size", DEFAULT_SIZE),
                 quality |-> OrDefaultText(options, "quality", "standard"),
                 style |-> OrDefaultText(options, "style", "vivid")]
    IN  IF prompt = ""
        THEN [upstream |-> <<>>,
              response |-> [status |-> 400, body |-> [error |-> "Prompt is required"]]]
        ELSE IF apiKey.threw
        THEN ImageEmergency(<<>>, apiKey.message, t)
        ELSE IF /\ reply.kind = "settled"
                /\ reply.ok
                /\ reply.body.kind = "images"
                /\ reply.body.hasData
                /\ Len(reply.body.data) > 0
        THEN [upstream |-> <<call>>,
              response |->
                 [status |-> 200,
                  body |-> [images |-> [i \in DOMAIN reply.body.data |->
                                           [url |-> reply.body.data[i].url,
                                            prompt |-> prompt, model |-> model]],
                            metadata |-> [model |-> model, prompt |-> prompt,
                                          timestamp |-> ToISOString(t),
                                          provider |-> "OpenRouter"]]]]
        ELSE ImageFallback(<<call>>, prompt, model, options, t)

(***************************************************************************)
(* The audio route.  A form is a function from the names of its entries;   *)
(* formData.get of a name it lacks is null.                                *)
(***************************************************************************)
TRANSLATIONS_URL == "https://api.groq.com/openai/v1/audio/translations"
TRANSCRIPTIONS_URL == "https://api.groq.com/openai/v1/audio/transcriptions"
DEFAULT_AUDIO_MODEL == "whisper-large-v3"
NullText == "null"

FormGet(form, name) == IF name \in DOMAIN form THEN form[name] ELSE NullText

Truthy(text) == text # NullText /\ text # ""

\* the catch of the audio route
AudioFailed(calls, message) ==
    [upstream |-> calls,
     response |-> [status |-> 500,
                   body |-> [error |-> "Audio processing failed", details |-> message]]]

\* POST of the audio route
AudioPOST(form, e, reply) ==
    LET audioFile == FormGet(form.entries, "file")
        action == FormGet(form.entries, "action")
        model == IF Truthy(FormGet(form.entries, "model"))
                 THEN FormGet(form.entries, "model") ELSE DEFAULT_AUDIO_MODEL
        language == FormGet(form.entries, "language")
        temperature == FormGet(form.entries, "temperature")
        groqFormData ==
            [f \in {"file", "model"}
                     \cup (IF Truthy(language) /\ language # "auto" THEN {"language"} ELSE {})
                     \cup (IF Truthy(temperature) THEN {"temperature"} ELSE {}) |->
                CASE f = "file" -> audioFile
                  [] f = "model" -> model
                  [] f = "language" -> language
                  [] f = "temperature" -> temperature]
        endpoint == IF action = "translate" THEN TRANSLATIONS_URL ELSE TRANSCRIPTIONS_URL
        call == [provider |-> "Groq", url |-> endpoint, apiKey |-> e.GROQ_API_KEY,
                 body |-> groqFormData]
        errorData == JsonOrUnknownError(reply.body)
    IN  IF e.GROQ_API_KEY = ""
        THEN [upstream |-> <<>>,
              response |-> [status |-> 500,
                            body |-> [error |-> "Groq API key not configured"]]]
        ELSE IF form.kind = "invalid"
        THEN AudioFailed(<<>>, "Failed to parse body as FormData")
        ELSE IF ~Truthy(audioFile)
        THEN [upstream |-> <<>>,
              response |-> [status |-> 400, body |-> [error |-> "No audio file provided"]]]
        ELSE IF reply.kind = "rejected"
        THEN AudioFailed(<<call>>, reply.message)
        ELSE IF ~reply.ok
        THEN IF errorData.kind = "null"
             THEN AudioFailed(<<call>>, "Cannot read properties of null (reading 'error')")
             ELSE [upstream |-> <<call>>,
                   response |->
                      [status |-> reply.status,
                       body |-> [error |-> IF HasMessage(errorData)
                                           THEN errorData.message
                                           ELSE "Groq API error: " \o String(reply.status),
                                 details |-> errorData]]]
        ELSE IF reply.body.kind = "notJson"
        THEN AudioFailed(<<call>>, "Unexpected token in JSON")
        ELSE IF reply.body.kind = "null"
        THEN AudioFailed(<<call>>, "Cannot read properties of null (reading 'text')")
        ELSE [upstream |-> <<call>>,
              response |-> [status |-> 200,
                            body |-> [text |-> reply.body.text,
                                      language |-> reply.body.language,
                                      duration |-> reply.body.duration,
                                      model |-> model,
                                      action |-> action]]]

(***************************************************************************)
(* Inputs of the routes.                                                   *)
(***************************************************************************)
Envs ==
    [GROQ_API_KEY : {"", "gsk"}, OPENROUTER_API_KEYS : {<<>>, <<"k1">>, <<"k1", "k2">>}]

\* the object with the fields `fs` of `full`
Pick(full, fs) == [f \in fs |-> full[f]]

ChatOptions ==
    {Pick([temperature |-> t, maxTokens |-> m], fs) :
        t \in {0, 2}, m \in {0, 500}, fs \in SUBSET {"temperature", "maxTokens"}}

ChatModels ==
    {groqModels[i] : i \in DOMAIN groqModels}
        \cup {"anthropic/claude-sonnet-4", "no-such-model"}

ChatBodies ==
    {Pick([message |-> m, messages |-> ms, model |-> md, options |-> o], fs) :
        m \in {"", "Hi"},
        ms \in {<<>>, <<[role |-> "assistant", content |-> "Welcome"]>>},
        md \in ChatModels,
        o \in ChatOptions,
        fs \in SUBSET {"message", "messages", "model", "options"}}

\* what generateText of the SDK settles with
GenerateTextOutcomes ==
    {[kind |-> "rejected", message |-> "Too Many Requests"]}
        \cup [kind : {"resolved"}, text : {"Hello!"}, tokens : {0, 12},
              finishReason : {"", "length"}]

\* the bodies of an upstream answer
ErrorBodies ==
    {[kind |-> "notJson"], [kind |-> "null"], [kind |-> "noError"],
     [kind |-> "errorString", error |-> "quota"],
     [kind |-> "errorObject", hasMessage |-> FALSE, message |-> ""],
     [kind |-> "errorObject", hasMessage |-> TRUE, message |-> ""],
     [kind |-> "errorObject", hasMessage |-> TRUE, message |-> "rate limited"]}

Choices ==
    {<<>>,
     <<[hasMessage |-> FALSE, content |-> "", finish_reason |-> "stop"]>>,
     <<[hasMessage |-> TRUE, content |-> "Hello!", finish_reason |-> "stop"]>>,
     <<[hasMessage |-> TRUE, content |-> "Hello!", finish_reason |-> ""],
       [hasMessage |-> TRUE, content |-> "Other", finish_reason |-> "stop"]>>}

CompletionBodies ==
    [kind : {"completion"}, hasChoices : BOOLEAN, choices : Choices, total_tokens : {12}]

\* what fetch of the completions endpoint settles with
ChatFetchOutcomes ==
    {[kind |-> "rejected", message |-> "fetch failed"]}
        \cup [kind : {"settled"}, ok : {FALSE}, status : {429, 500}, body : ErrorBodies]
        \cup [kind : {"settled"}, ok : {TRUE}, status : {200},
              body : CompletionBodies \cup {[kind |-> "notJson"], [kind |-> "null"],
                                            [kind |-> "noError"]}]

ImageOptions ==
    {Pick([size |-> sz, count |-> n], fs) :
        sz \in {"512x768", "wide"}, n \in {0, 2}, fs \in SUBSET {"size", "count"}}

\* a prompt longer than PROMPT_LENGTH
LongPrompt == Text51 \o " " \o Text51

ImageBodies ==
    {Pick([prompt |-> pr, model |-> md, options |-> o], fs) :
        pr \in {"", "hello", "a Cat", "City street at night", LongPrompt},
        md \in {"openai/dall-e-3"},
        o \in ImageOptions,
        fs \in SUBSET {"prompt", "model", "options"}}

\* what fetch of the image endpoint settles with
ImageFetchOutcomes ==
    {[kind |-> "rejected", message |-> "fetch failed"]}
        \cup [kind : {"settled"}, ok : {FALSE}, status : {429, 500},
              body : {[kind |-> "notJson"]}]
        \cup [kind : {"settled"}, ok : {TRUE}, status : {200},
              body : {[kind |-> "notJson"], [kind |-> "null"], [kind |-> "noError"]}
                       \cup [kind : {"images"}, hasData : BOOLEAN,
                             data : {<<>>, <<[url |-> "https://img.example/1.png"]>>}]]

AudioForms ==
    {[kind |-> "invalid"]}
        \cup {[kind |-> "form",
               entries |-> Pick([file |-> "audio.webm", action |-> a, model |-> md,
                                 language |-> l, temperature |-> t], fs)] :
                a \in {"transcribe", "translate", "Translate"},
                md \in {"", "whisper-large-v3-turbo"},
                l \in {"auto", "en"},
                t \in {"", "0"},
                fs \in SUBSET {"file", "action", "model", "language", "temperature"}}

\* what fetch of an audio endpoint settles with
AudioFetchOutcomes ==
    {[kind |-> "rejected", message |-> "fetch failed"]}
        \cup [kind : {"settled"}, ok : {FALSE}, status : {400, 429, 500}, body : ErrorBodies]
        \cup [kind : {"settled"}, ok : {TRUE}, status : {200},
              body : {[kind |-> "notJson"], [kind |-> "null"],
                      [kind |-> "transcript", text |-> "hello world",
                       language |-> "en", duration |-> 3]}]

(***************************************************************************)
(* The steps of the route handlers.  The modules keep nothing between two  *)
(* requests, so every request is handled from the idle state.              *)
(***************************************************************************)
Idle == request.route = "none"

\* the calls of a handler, each with what it settled with
Settled(calls, reply) == [i \in DOMAIN calls |-> [call |-> calls[i], reply |-> reply]]

HandleChat(body, random, reply) ==
    LET handled == ChatPOST(body, env, random, reply)
    IN /\ Idle
       /\ request' = [route |-> "chat", body |-> body]
       /\ upstream' = Settled(handled.upstream, reply)
       /\ response' = handled.response
       /\ UNCHANGED <<env, conversations, currentConversationId, storage, now,
                      msgSeq, appended, created, last, ret, ops, page, inFlight, aside>>

HandleImage(body, random, reply) ==
    LET handled == ImagePOST(body, env, random, reply, now)
    IN /\ Idle
       /\ request' = [route |-> "image", body |-> body]
       /\ upstream' = Settled(handled.upstream, reply)
       /\ response' = handled.response
       /\ UNCHANGED <<env, conversations, currentConversationId, storage, now,
                      msgSeq, appended, created, last, ret, ops, page, inFlight, aside>>

HandleAudio(form, reply) ==
    LET handled == AudioPOST(form, env, reply)
    IN /\ Idle
       /\ request' = [route |-> "audio", body |-> form]
       /\ upstream' = Settled(handled.upstream, reply)
       /\ response' = handled.response
       /\ UNCHANGED <<env, conversations, currentConversationId, storage, now,
                      msgSeq, appended, created, last, ret, ops, page, inFlight, aside>>

\* the response has been sent
Returned ==
    /\ ~Idle
    /\ request' = [route |-> "none"]
    /\ upstream' = <<>>
    /\ response' = [status |-> 0]
    /\ UNCHANGED <<env, conversations, currentConversationId, storage, now,
                   msgSeq, appended, created, last, ret, ops, page, inFlight, aside>>

\* the route modules loaded under each configuration of keys
InitRoutes ==
    /\ conversations = <<>>
    /\ currentConversationId = Null
    /\ storage = NoItem
    /\ now = 0
    /\ msgSeq = 0
    /\ appended = <<>>
    /\ created = {}
    /\ last = [op |-> "new", id |-> Null]
    /\ ret = Null
    /\ ops = 0
    /\ env \in Envs
    /\ request = [route |-> "none"]
    /\ upstream = <<>>
    /\ response = [status |-> 0]
    /\ page = [mounted |-> FALSE, isLoading |-> FALSE, isImageMode |-> FALSE,
               input |-> "", imagePrompt |-> "", currentConversationId |-> Null,
               messages |-> <<>>, selectedModel |-> "deepseek/deepseek-r1-0528:free"]
    /\ inFlight = <<>>
    /\ authService = NewAuthService
    /\ advancedSpeech = NewAdvancedSpeechService

NextRoutes ==
    \/ /\ Idle
       /\ \E body \in ChatBodies, random \in RandomIndices(env.OPENROUTER_API_KEYS) :
             \E reply \in IF isGroqModel(Field(body, "model", DEFAULT_CHAT_MODEL))
                           THEN GenerateTextOutcomes ELSE ChatFetchOutcomes :
                HandleChat(body, random, reply)
    \/ /\ Idle
       /\ \E body \in ImageBodies, random \in RandomIndices(env.OPENROUTER_API_KEYS),
             reply \in ImageFetchOutcomes :
                HandleImage(body, random, reply)
    \/ /\ Idle
       /\ \E form \in AudioForms, reply \in AudioFetchOutcomes : HandleAudio(form, reply)
    \/ Returned

SpecRoutes == InitRoutes /\ [][NextRoutes]_vars

(***************************************************************************)
(* C15.  A chat request is sent to Groq if and only if its model id is on  *)
(* the allow-list and to OpenRouter for every other id, the ids outside    *)
(* the catalog included; the provider field of the response names the      *)
(* provider that was called.                                               *)
(***************************************************************************)
RequestedModel == Field(request.body, "model", DEFAULT_CHAT_MODEL)

ProviderFor(modelId) ==
    IF modelId \in {"llama-3.3-70b-versatile", "llama-3.1-8b-instant",
                    "llama3-70b-8192", "llama3-8b-8192", "gemma2-9b-it"}
    THEN "Groq" ELSE "OpenRouter"

C15_RoutedByModelAlone ==
    request.route = "chat" =>
        /\ \A i \in DOMAIN upstream :
              upstream[i].call.provider = ProviderFor(RequestedModel)
        /\ response.status = 200 =>
              /\ Len(upstream) = 1
              /\ response.body.provider = upstream[1].call.provider

\* an id outside the catalog was sent to OpenRouter and answered
C15_Witness ==
    /\ request.route = "chat"
    /\ RequestedModel = "no-such-model"
    /\ Len(upstream) = 1
    /\ upstream[1].call.provider = "OpenRouter"
    /\ response.status = 200
    /\ response.body.provider = "OpenRouter"

\* an id of the allow-list was sent to Groq and answered
C15_GroqReached ==
    /\ request.route = "chat"
    /\ RequestedModel = "gemma2-9b-it"
    /\ Len(upstream) = 1
    /\ upstream[1].call.provider = "Groq"
    /\ response.status = 200

(***************************************************************************)
(* C16.  When OpenRouter answers a chat request with a non-success status, *)
(* the response of the chat route is an error response without a message   *)
(* whose details are the error.message of the upstream payload when the    *)
(* payload has one, and otherwise a text that contains the status code.    *)
(***************************************************************************)
Contains(text, part) ==
    \E i \in 1..Len(text) :
        i + Len(part) - 1 <= Len(text) /\ SubSeq(text, i, i + Len(part) - 1) = part

AnsweredNonSuccess ==
    /\ request.route = "chat"
    /\ Len(upstream) = 1
    /\ upstream[1].call.provider = "OpenRouter"
    /\ upstream[1].reply.kind = "settled"
    /\ ~upstream[1].reply.ok

\* the payload has an error.message that is not the empty string
HasErrorMessage(payload) ==
    payload.kind = "errorObject" /\ payload.hasMessage /\ payload.message # ""

C16_UpstreamErrorSurfaced ==
    AnsweredNonSuccess =>
        /\ response.status = 500
        /\ "message" \notin DOMAIN response.body
        /\ IF HasErrorMessage(upstream[1].reply.body)
           THEN response.body.details = upstream[1].reply.body.message
           ELSE Contains(response.body.details, String(upstream[1].reply.status))

\* C16 holds of every payload but the JSON text null
C16_UnlessNull ==
    (AnsweredNonSuccess /\ upstream[1].reply.body.kind # "null")
        => /\ response.status = 500
           /\ "message" \notin DOMAIN response.body
           /\ IF HasErrorMessage(upstream[1].reply.body)
              THEN response.body.details = upstream[1].reply.body.message
              ELSE Contains(response.body.details, String(upstream[1].reply.status))

\* the scenario of the claim: 429 with {error: {message: "rate limited"}}
C16_RateLimited ==
    /\ AnsweredNonSuccess
    /\ upstream[1].reply.status = 429
    /\ response.body.details = "rate limited"

(***************************************************************************)
(* C19.  The temperature and the maximum of output tokens that the chat    *)
(* route sends upstream, to either provider, are the values of the options *)
(* of the request whenever the request has them, and the defaults 0.7 and  *)
(* 2000 only when it has none.                                             *)
(***************************************************************************)
RequestedOptions == Field(request.body, "options", EmptyObject)

TemperatureSent == upstream[1].call.temperature

MaxTokensSent ==
    IF upstream[1].call.provider = "Groq"
    THEN upstream[1].call.maxTokens ELSE upstream[1].call.max_tokens

C19_OptionsReachUpstream ==
    (request.route = "chat" /\ Len(upstream) = 1) =>
        /\ TemperatureSent = IF "temperature" \in DOMAIN RequestedOptions
                             THEN RequestedOptions.temperature ELSE 7
        /\ MaxTokensSent = IF "maxTokens" \in DOMAIN RequestedOptions
                           THEN RequestedOptions.maxTokens ELSE 2000

\* C19 holds of every supplied value but 0
C19_UnlessZero ==
    (/\ request.route = "chat" /\ Len(upstream) = 1
     /\ \A f \in DOMAIN RequestedOptions : RequestedOptions[f] # 0) =>
        /\ TemperatureSent = IF "temperature" \in DOMAIN RequestedOptions
                             THEN RequestedOptions.temperature ELSE 7
        /\ MaxTokensSent = IF "maxTokens" \in DOMAIN RequestedOptions
                           THEN RequestedOptions.maxTokens ELSE 2000

(***************************************************************************)
(* C17.  An image request with a prompt whose generation fails (no key     *)
(* configured, upstream status outside 2xx, 2xx without image data, fetch  *)
(* rejected) is answered with status 200, a list of images that is not     *)
(* empty and whose first url is a placeholder reference, and               *)
(* metadata.fallback = true.                                               *)
(***************************************************************************)
ImageDataReturned ==
    /\ Len(upstream) = 1
    /\ upstream[1].reply.kind = "settled"
    /\ upstream[1].reply.ok
    /\ upstream[1].reply.body.kind = "images"
    /\ upstream[1].reply.body.hasData
    /\ Len(upstream[1].reply.body.data) > 0

ImageFailure ==
    /\ request.route = "image"
    /\ Field(request.body, "prompt", "") # ""
    /\ ~ImageDataReturned

FallbackAnswer ==
    /\ response.status = 200
    /\ Len(response.body.images) >= 1
    /\ response.body.images[1].url.path = "/placeholder.svg"
    /\ "fallback" \in DOMAIN response.body.metadata
    /\ response.body.metadata.fallback = TRUE

C17_ImageFailureFallsBack == ImageFailure => FallbackAnswer

\* C17 holds of every failure after the upstream call
C17_UnlessNoCredential == (ImageFailure /\ Len(upstream) = 1) => FallbackAnswer

(***************************************************************************)
(* C20.  A request whose provider has no key configured gets the           *)
(* configuration error as its answer, once it has passed the tests of its  *)
(* body that come first, and no call is made upstream for it: chat on      *)
(* either provider, image generation and audio.                            *)
(***************************************************************************)
NoCredential ==
    CASE request.route = "chat" ->
            IF ProviderFor(RequestedModel) = "Groq"
            THEN env.GROQ_API_KEY = "" ELSE Len(env.OPENROUTER_API_KEYS) = 0
      [] request.route = "image" -> Len(env.OPENROUTER_API_KEYS) = 0
      [] request.route = "audio" -> env.GROQ_API_KEY = ""
      [] OTHER -> FALSE

ConfigurationErrorSignalled ==
    CASE request.route = "chat" ->
            \/ response.status = 400
            \/ /\ response.status = 500
               /\ response.body.details =
                     IF ProviderFor(RequestedModel) = "Groq"
                     THEN "Groq API key not configured"
                     ELSE "No OpenRouter API keys configured"
      [] request.route = "image" ->
            \/ response.status = 400
            \/ /\ "details" \in DOMAIN response.body
               /\ response.body.details = "No OpenRouter API keys configured"
      [] request.route = "audio" ->
            /\ response.status = 500
            /\ response.body.error = "Groq API key not configured"

C20_NoCallWithoutCredential ==
    NoCredential => upstream = <<>> /\ ConfigurationErrorSignalled

\* a chat request for OpenRouter with a message, handled without any key
C20_Witness ==
    /\ request.route = "chat"
    /\ Field(request.body, "message", "") # ""
    /\ ProviderFor(RequestedModel) = "OpenRouter"
    /\ Len(env.OPENROUTER_API_KEYS) = 0
    /\ response.status = 500

\* an image request with a prompt, handled without any key
C20_ImageReached ==
    /\ request.route = "image"
    /\ Field(request.body, "prompt", "") # ""
    /\ Len(env.OPENROUTER_API_KEYS) = 0
    /\ response.status = 200

(***************************************************************************)
(* The page (src/vercel-deployment/app/page.tsx).  The store it calls is   *)
(* the module's conversationMemory, taken here as a value so that a        *)
(* handler can call it more than once in a step; localStorage works.       *)
(***************************************************************************)
CONTEXT_TOKENS == 4000
MaxPageOps == 7

\* every step of the page is counted, and the run ends after MaxPageOps steps
PageCounted == ops < MaxPageOps /\ ops' = ops + 1
WELCOME == "Hello! I'm MOD AI Assistant"
APOLOGY == "I apologize, but I'm having trouble processing your request."
IMAGE_MODEL == "black-forest-labs/flux-schnell"

Store ==
    [conversations |-> conversations, currentConversationId |-> currentConversationId,
     storage |-> storage, msgSeq |-> msgSeq, appended |-> appended, created |-> created]

SetStore(st) ==
    /\ conversations' = st.conversations
    /\ currentConversationId' = st.currentConversationId
    /\ storage' = st.storage
    /\ msgSeq' = st.msgSeq
    /\ appended' = st.appended
    /\ created' = st.created

\* conversationMemory.createConversation(model), which returns ConversationId(now, r)
AfterCreateConversation(st, model, r) ==
    LET id == ConversationId(now, r)
        map == LimitConversations(MapSet(st.conversations, NewConversation(id, model)))
    IN [st EXCEPT
          !.conversations = map,
          !.currentConversationId = id,
          !.storage = SaveToStorage(map, TRUE),
          !.appended = [k \in Keys(map) |-> IF k = id THEN <<>> ELSE st.appended[k]],
          !.created = (st.created \cup {id}) \cap Keys(map)]

\* conversationMemory.addMessage(conversationId, {content, role})
AfterAddMessage(st, conversationId, content, role) ==
    IF ~MapHas(st.conversations, conversationId) THEN st
    ELSE LET newMessage == [id |-> st.msgSeq + 1, content |-> content, role |-> role,
                            timestamp |-> now]
             map == MapSet(st.conversations,
                           Pushed(MapGet(st.conversations, conversationId), newMessage))
         IN [st EXCEPT
               !.msgSeq = st.msgSeq + 1,
               !.conversations = map,
               !.storage = SaveToStorage(map, TRUE),
               !.appended = [st.appended EXCEPT ![conversationId] = Append(@, newMessage)]]

InsertByUpdatedAtDescending(sorted, conv) ==
    LET before == SelectSeq(sorted, LAMBDA c : c.updatedAt >= conv.updatedAt)
        after == SelectSeq(sorted, LAMBDA c : c.updatedAt < conv.updatedAt)
    IN before \o <<conv>> \o after

\* getAllConversations(): the conversations, the last updated first
RECURSIVE GetAllConversations(_)
GetAllConversations(map) ==
    IF map = <<>> THEN <<>>
    ELSE InsertByUpdatedAtDescending(GetAllConversations(SubSeq(map, 1, Len(map) - 1)),
                                     map[Len(map)])

\* the messages of a conversation as the page displays them
Displayed(messages) ==
    [i \in DOMAIN messages |-> [content |-> messages[i].content, role |-> messages[i].role]]

\* startNewConversation(): the store and the state of the page after it
StartedNew(st, pg, r) ==
    LET conversationId == ConversationId(now, r)
    IN [store |-> AfterAddMessage(AfterCreateConversation(st, pg.selectedModel, r),
                                  conversationId, WELCOME, "assistant"),
        page |-> [pg EXCEPT !.currentConversationId = conversationId,
                            !.messages = <<[content |-> WELCOME, role |-> "assistant"]>>]]

\* the effect that runs once the page is mounted
InitConversation(r) ==
    /\ PageCounted
    /\ ~page.mounted
    /\ last' = [op |-> "initConversation", id |-> Null]
    /\ ret' = Null
    /\ IF Len(conversations) > 0
       THEN LET latest == GetAllConversations(conversations)[1]
            IN /\ page' = [page EXCEPT !.mounted = TRUE,
                                       !.currentConversationId = latest.id,
                                       !.messages = Displayed(latest.messages),
                                       !.selectedModel = latest.model]
               /\ UNCHANGED <<conversations, currentConversationId, storage, msgSeq,
                              appended, created>>
       ELSE LET started == StartedNew(Store, page, r)
            IN /\ page' = [started.page EXCEPT !.mounted = TRUE]
               /\ SetStore(started.store)
    /\ UNCHANGED <<now, inFlight, server, aside>>

\* the page is loaded again: the module builds its store from localStorage and
\* the requests of the page that was left settle for nobody
Reload ==
    /\ PageCounted
    /\ page.mounted
    /\ conversations' = LoadFromStorage(storage)
    /\ currentConversationId' = Null
    /\ appended' = Reset(conversations')
    /\ created' = {}
    /\ page' = [mounted |-> FALSE, isLoading |-> FALSE, isImageMode |-> FALSE,
                input |-> "", imagePrompt |-> "", currentConversationId |-> Null,
                messages |-> <<>>, selectedModel |-> "deepseek/deepseek-r1-0528:free"]
    /\ inFlight' = <<>>
    /\ last' = [op |-> "new", id |-> Null]
    /\ ret' = Null
    /\ UNCHANGED <<storage, now, msgSeq, server, aside>>

\* onChange of the input, or a transcript of the voice input
SetInput(text) ==
    /\ PageCounted
    /\ page.mounted
    /\ page' = [page EXCEPT !.input = text]
    /\ last' = [op |-> "setInput", id |-> Null]
    /\ ret' = Null
    /\ UNCHANGED <<conversations, currentConversationId, storage, now, msgSeq,
                   appended, created, inFlight, server, aside>>

SetImagePrompt(text) ==
    /\ PageCounted
    /\ page.mounted
    /\ page' = [page EXCEPT !.imagePrompt = text]
    /\ last' = [op |-> "setImagePrompt", id |-> Null]
    /\ ret' = Null
    /\ UNCHANGED <<conversations, currentConversationId, storage, now, msgSeq,
                   appended, created, inFlight, server, aside>>

\* the Chat and Image buttons
SetIsImageMode(mode) ==
    /\ PageCounted
    /\ page.mounted
    /\ page' = [page EXCEPT !.isImageMode = mode]
    /\ last' = [op |-> "setIsImageMode", id |-> Null]
    /\ ret' = Null
    /\ UNCHANGED <<conversations, currentConversationId, storage, now, msgSeq,
                   appended, created, inFlight, server, aside>>

\* onNewConversation of the sidebar
StartNewConversation(r) ==
    LET started == StartedNew(Store, page, r)
    IN /\ PageCounted
       /\ page.mounted
       /\ page' = started.page
       /\ SetStore(started.store)
       /\ last' = [op |-> "startNewConversation", id |-> ConversationId(now, r)]
       /\ ret' = Null
       /\ UNCHANGED <<now, inFlight, server, aside>>

\* onConversationSelect of the sidebar
HandleConversationSelect(conversationId) ==
    /\ PageCounted
    /\ page.mounted
    /\ last' = [op |-> "handleConversationSelect", id |-> conversationId]
    /\ ret' = Null
    /\ IF MapHas(conversations, conversationId)
       THEN LET conversation == MapGet(conversations, conversationId)
            IN /\ page' = [page EXCEPT !.currentConversationId = conversationId,
                                       !.messages = Displayed(conversation.messages),
                                       !.selectedModel = conversation.model]
               /\ currentConversationId' = conversationId
       ELSE UNCHANGED <<page, currentConversationId>>
    /\ UNCHANGED <<conversations, storage, now, msgSeq, appended, created, inFlight,
                   server, aside>>

\* conversationMemory.deleteConversation(id)
AfterDeleteConversation(st, id) ==
    LET map == MapDelete(st.conversations, id)
    IN [st EXCEPT
          !.conversations = map,
          !.currentConversationId = IF @ = id THEN Null ELSE @,
          !.storage = SaveToStorage(map, TRUE),
          !.appended = [k \in Keys(map) |-> st.appended[k]],
          !.created = st.created \cap Keys(map)]

\* the delete button of a conversation in the sidebar
HandleDeleteConversation(id, r) ==
    LET deleted == AfterDeleteConversation(Store, id)
    IN /\ PageCounted
       /\ page.mounted
       /\ MapHas(conversations, id)
       /\ last' = [op |-> "handleDeleteConversation", id |-> id]
       /\ ret' = Null
       /\ IF page.currentConversationId = id
          THEN LET started == StartedNew(deleted, page, r)
               IN page' = started.page /\ SetStore(started.store)
          ELSE SetStore(deleted) /\ UNCHANGED page
       /\ UNCHANGED <<now, inFlight, server, aside>>

\* mutant: the submit is not stopped while a request is in flight
HandleSubmitWhileLoading(r) ==
    /\ PageCounted
    /\ page.mounted
    /\ last' = [op |-> "handleSubmit", id |-> page.currentConversationId]
    /\ ret' = Null
    /\ UNCHANGED <<now, server, aside>>
    /\ IF page.input = "" /\ ~page.isImageMode
       THEN UNCHANGED <<conversations, currentConversationId, storage, msgSeq,
                        appended, created, page, inFlight>>
       ELSE IF page.currentConversationId = Null
       THEN LET started == StartedNew(Store, page, r)
            IN page' = started.page /\ SetStore(started.store) /\ UNCHANGED inFlight
       ELSE IF page.isImageMode
       THEN /\ IF page.imagePrompt = ""
               THEN UNCHANGED <<page, inFlight>>
               ELSE /\ page' = [page EXCEPT !.isLoading = TRUE]
                    /\ inFlight' = Append(inFlight,
                          [route |-> "image",
                           currentConversationId |-> page.currentConversationId,
                           body |-> [prompt |-> page.imagePrompt, model |-> IMAGE_MODEL,
                                     options |-> [size |-> "1024x1024", count |-> 1]]])
            /\ UNCHANGED <<conversations, currentConversationId, storage, msgSeq,
                           appended, created>>
       ELSE LET st == AfterAddMessage(Store, page.currentConversationId, page.input, "user")
            IN /\ SetStore(st)
               /\ page' = [page EXCEPT
                             !.messages = Append(@, [content |-> page.input, role |-> "user"]),
                             !.input = "",
                             !.isLoading = TRUE]
               /\ inFlight' = Append(inFlight,
                     [route |-> "chat",
                      currentConversationId |-> page.currentConversationId,
                      body |-> [message |-> page.input,
                                messages |-> ContextMessages(st.conversations,
                                                page.currentConversationId, CONTEXT_TOKENS),
                                model |-> page.selectedModel,
                                options |-> [temperature |-> 7, maxTokens |-> 2000]]])

\* handleSubmit, with handleImageGeneration, up to the await of fetch
HandleSubmit(r) ==
    /\ PageCounted
    /\ page.mounted
    /\ last' = [op |-> "handleSubmit", id |-> page.currentConversationId]
    /\ ret' = Null
    /\ UNCHANGED <<now, server, aside>>
    /\ IF (page.input = "" /\ ~page.isImageMode) \/ page.isLoading
       THEN UNCHANGED <<conversations, currentConversationId, storage, msgSeq,
                        appended, created, page, inFlight>>
       ELSE IF page.currentConversationId = Null
       THEN LET started == StartedNew(Store, page, r)
            IN page' = started.page /\ SetStore(started.store) /\ UNCHANGED inFlight
       ELSE IF page.isImageMode
       THEN /\ IF page.imagePrompt = ""
               THEN UNCHANGED <<page, inFlight>>
               ELSE /\ page' = [page EXCEPT !.isLoading = TRUE]
                    /\ inFlight' = Append(inFlight,
                          [route |-> "image",
                           currentConversationId |-> page.currentConversationId,
                           body |-> [prompt |-> page.imagePrompt, model |-> IMAGE_MODEL,
                                     options |-> [size |-> "1024x1024", count |-> 1]]])
            /\ UNCHANGED <<conversations, currentConversationId, storage, msgSeq,
                           appended, created>>
       ELSE LET st == AfterAddMessage(Store, page.currentConversationId, page.input, "user")
            IN /\ SetStore(st)
               /\ page' = [page EXCEPT
                             !.messages = Append(@, [content |-> page.input, role |-> "user"]),
                             !.input = "",
                             !.isLoading = TRUE]
               /\ inFlight' = Append(inFlight,
                     [route |-> "chat",
                      currentConversationId |-> page.currentConversationId,
                      body |-> [message |-> page.input,
                                messages |-> ContextMessages(st.conversations,
                                                page.currentConversationId, CONTEXT_TOKENS),
                                model |-> page.selectedModel,
                                options |-> [temperature |-> 7, maxTokens |-> 2000]]])

\* the sequence without its k-th element
Without(seq, k) == SubSeq(seq, 1, k - 1) \o SubSeq(seq, k + 1, Len(seq))

\* what a fetch of the page settles with, as its handler reads it
SettledWith ==
    {[ok |-> TRUE, message |-> "Hello!", images |-> 1],
     [ok |-> TRUE, message |-> "Hello!", images |-> 0],
     [ok |-> FALSE, message |-> "", images |-> 0]}

\* handleSubmit from the await of fetch("/api/chat") on
\* mutant: the loading flag is reset on the success path only
ChatSettledWithoutFinally(k, settled) ==
    LET sent == inFlight[k]
    IN /\ UNCHANGED ops
       /\ k \in DOMAIN inFlight
       /\ sent.route = "chat"
       /\ inFlight' = Without(inFlight, k)
       /\ last' = [op |-> "chatSettled", id |-> sent.currentConversationId]
       /\ ret' = Null
       /\ IF settled.ok
          THEN /\ page' = [page EXCEPT
                             !.messages = Append(@, [content |-> settled.message,
                                                     role |-> "assistant"]),
                             !.isLoading = FALSE]
               /\ SetStore(AfterAddMessage(Store, sent.currentConversationId,
                                           settled.message, "assistant"))
          ELSE /\ page' = [page EXCEPT
                             !.messages = Append(@, [content |-> APOLOGY,
                                                     role |-> "assistant"])]
               /\ UNCHANGED <<conversations, currentConversationId, storage, msgSeq,
                              appended, created>>
       /\ UNCHANGED <<now, server, aside>>

\* the continuation of handleSubmit after its fetch has settled; the steps of
\* a request already sent are not steps of the user and are not counted
ChatSettled(k, settled) ==
    LET sent == inFlight[k]
    IN /\ UNCHANGED ops
       /\ k \in DOMAIN inFlight
       /\ sent.route = "chat"
       /\ inFlight' = Without(inFlight, k)
       /\ last' = [op |-> "chatSettled", id |-> sent.currentConversationId]
       /\ ret' = Null
       /\ IF settled.ok
          THEN /\ page' = [page EXCEPT
                             !.messages = Append(@, [content |-> settled.message,
                                                     role |-> "assistant"]),
                             !.isLoading = FALSE]
               /\ SetStore(AfterAddMessage(Store, sent.currentConversationId,
                                           settled.message, "assistant"))
          ELSE /\ page' = [page EXCEPT
                             !.messages = Append(@, [content |-> APOLOGY,
                                                     role |-> "assistant"]),
                             !.isLoading = FALSE]
               /\ UNCHANGED <<conversations, currentConversationId, storage, msgSeq,
                              appended, created>>
       /\ UNCHANGED <<now, server, aside>>

\* handleImageGeneration from the await of fetch("/api/image-generation") on
ImageSettled(k, settled) ==
    LET sent == inFlight[k]
        content == "Generated image for: " \o sent.body.prompt
    IN /\ UNCHANGED ops
       /\ k \in DOMAIN inFlight
       /\ sent.route = "image"
       /\ inFlight' = Without(inFlight, k)
       /\ last' = [op |-> "imageSettled", id |-> sent.currentConversationId]
       /\ ret' = Null
       /\ IF settled.ok /\ settled.images > 0
          THEN /\ page' = [page EXCEPT
                             !.messages = Append(@, [content |-> content,
                                                     role |-> "assistant"]),
                             !.imagePrompt = "",
                             !.isLoading = FALSE]
               /\ SetStore(AfterAddMessage(Store, sent.currentConversationId,
                                           content, "assistant"))
          ELSE /\ page' = [page EXCEPT
                             !.imagePrompt = IF settled.ok THEN "" ELSE @,
                             !.isLoading = FALSE]
               /\ UNCHANGED <<conversations, currentConversationId, storage, msgSeq,
                              appended, created>>
       /\ UNCHANGED <<now, server, aside>>

\* time passes for the page
PageTick ==
    /\ PageCounted
    /\ now' = now + 1
    /\ last' = [op |-> "tick", id |-> Null]
    /\ ret' = Null
    /\ UNCHANGED <<conversations, currentConversationId, storage, msgSeq,
                   appended, created, server, ui, aside>>

NextPage ==
    \/ PageTick
    \/ \E r \in RandomSuffixes : InitConversation(r)
    \/ Reload
    \/ SetInput(Hello)
    \/ SetImagePrompt("a cat")
    \/ \E mode \in BOOLEAN : SetIsImageMode(mode)
    \/ \E r \in RandomSuffixes : StartNewConversation(r)
    \/ \E id \in KnownIds : HandleConversationSelect(id)
    \/ \E id \in Keys(conversations), r \in RandomSuffixes : HandleDeleteConversation(id, r)
    \/ \E r \in RandomSuffixes : HandleSubmit(r)
    \/ \E k \in 1..2, settled \in SettledWith : ChatSettled(k, settled)
    \/ \E k \in 1..2, settled \in SettledWith : ImageSettled(k, settled)

SpecPage == Init /\ [][NextPage]_vars

(***************************************************************************)
(* SpecPageLive: the page when every fetch it has sent settles.  The       *)
(* promise of fetch is resolved or rejected by the browser once the        *)
(* response or a network error arrives, and the continuation of the        *)
(* awaiting handler is then run by the event loop: a continuation that     *)
(* stays enabled is taken.                                                 *)
(***************************************************************************)
SpecPageLive ==
    /\ Init
    /\ [][NextPage]_vars
    /\ WF_vars(\E k \in 1..2, settled \in SettledWith : ChatSettled(k, settled))
    /\ WF_vars(\E k \in 1..2, settled \in SettledWith : ImageSettled(k, settled))

(***************************************************************************)
(* C18.  While a request of handleSubmit is in flight the page is loading, *)
(* and a submit of a loading page appends nothing to the store and sends   *)
(* no request; so at most one chat or image request of the page is in      *)
(* flight at any time.                                                     *)
(***************************************************************************)
C18_OneRequestInFlight ==
    [][/\ Len(inFlight') <= 1
       /\ Len(inFlight') = 1 => page'.isLoading
       /\ (last'.op = "handleSubmit" /\ page.isLoading) =>
             /\ conversations' = conversations
             /\ storage' = storage
             /\ inFlight' = inFlight]_vars

\* a submit with a text to send has just been handled while a request was in flight
C18_Witness ==
    /\ last.op = "handleSubmit"
    /\ page.isLoading
    /\ page.input # ""
    /\ ~page.isImageMode
    /\ page.currentConversationId # Null
    /\ Len(inFlight) = 1

(***************************************************************************)
(* C21.  A chat request makes at most one completion call upstream, and    *)
(* when that call is rejected, answered with a status outside 2xx or with  *)
(* a body that is not a valid completion, no other call is made and the    *)
(* request ends with one error response.                                   *)
(***************************************************************************)
ValidCompletion(body) ==
    /\ body.kind = "completion"
    /\ body.hasChoices
    /\ Len(body.choices) > 0
    /\ body.choices[1].hasMessage

ChatCallFailed ==
    /\ request.route = "chat"
    /\ Len(upstream) >= 1
    /\ \/ upstream[1].reply.kind = "rejected"
       \/ /\ upstream[1].reply.kind = "settled"
          /\ (~upstream[1].reply.ok \/ ~ValidCompletion(upstream[1].reply.body))

ErrorResponse ==
    /\ response.status = 500
    /\ DOMAIN response.body = {"error", "details"}
    /\ response.body.error = "Failed to generate response"

C21_GroqReached ==
    /\ ChatCallFailed
    /\ upstream[1].call.provider = "Groq"
    /\ Len(upstream) = 1
    /\ response.status = 500

(***************************************************************************)
(* C22.  A success answer of OpenRouter without a choices list that has a  *)
(* first element with a message makes the chat request fail, with the      *)
(* validation error when the body is a JSON object, and no message is      *)
(* returned; an answer with such a choice gives a response whose message   *)
(* is the content of that choice.                                          *)
(***************************************************************************)
AnsweredSuccess ==
    /\ request.route = "chat"
    /\ Len(upstream) = 1
    /\ upstream[1].call.provider = "OpenRouter"
    /\ upstream[1].reply.kind = "settled"
    /\ upstream[1].reply.ok

C22_ChoicesValidated ==
    AnsweredSuccess =>
        IF ValidCompletion(upstream[1].reply.body)
        THEN /\ response.status = 200
             /\ response.body.message = upstream[1].reply.body.choices[1].content
        ELSE /\ response.status = 500
             /\ "message" \notin DOMAIN response.body
             /\ upstream[1].reply.body.kind \in {"completion", "noError"} =>
                   response.body.details = "Invalid response format from API"

\* a success answer whose first choice has no message has made the request fail
C22_Witness ==
    /\ AnsweredSuccess
    /\ upstream[1].reply.body.kind = "completion"
    /\ upstream[1].reply.body.hasChoices
    /\ Len(upstream[1].reply.body.choices) = 1
    /\ ~upstream[1].reply.body.choices[1].hasMessage
    /\ response.status = 500

\* a success answer with two choices has given the content of the first
C22_FirstChoiceReached ==
    /\ AnsweredSuccess
    /\ ValidCompletion(upstream[1].reply.body)
    /\ Len(upstream[1].reply.body.choices) = 2
    /\ response.status = 200

(***************************************************************************)
(* C23.  With a key configured, the audio route calls the translation      *)
(* endpoint exactly when the action entry is "translate" and the           *)
(* transcription endpoint for every other action; an upstream answer       *)
(* outside 2xx is answered with the same status and an error body; a form  *)
(* without a file is answered 400 and no call is made.                     *)
(***************************************************************************)
AudioHandled ==
    /\ request.route = "audio"
    /\ env.GROQ_API_KEY # ""
    /\ request.body.kind = "form"

AudioAnsweredNonSuccess ==
    /\ AudioHandled
    /\ Len(upstream) = 1
    /\ upstream[1].reply.kind = "settled"
    /\ ~upstream[1].reply.ok

C23_AudioEndpointAndStatus ==
    AudioHandled =>
        /\ IF "file" \in DOMAIN request.body.entries
           THEN /\ Len(upstream) = 1
                /\ upstream[1].call.url =
                      IF /\ "action" \in DOMAIN request.body.entries
                         /\ request.body.entries.action = "translate"
                      THEN "https://api.groq.com/openai/v1/audio/translations"
                      ELSE "https://api.groq.com/openai/v1/audio/transcriptions"
           ELSE response.status = 400 /\ upstream = <<>>
        /\ AudioAnsweredNonSuccess =>
              /\ response.status = upstream[1].reply.status
              /\ "error" \in DOMAIN response.body

\* C23 holds of every upstream body but the JSON text null
C23_UnlessNull ==
    (AudioHandled /\ ~(AudioAnsweredNonSuccess /\ upstream[1].reply.body.kind = "null")) =>
        /\ IF "file" \in DOMAIN request.body.entries
           THEN /\ Len(upstream) = 1
                /\ upstream[1].call.url =
                      IF /\ "action" \in DOMAIN request.body.entries
                         /\ request.body.entries.action = "translate"
                      THEN "https://api.groq.com/openai/v1/audio/translations"
                      ELSE "https://api.groq.com/openai/v1/audio/transcriptions"
           ELSE response.status = 400 /\ upstream = <<>>
        /\ AudioAnsweredNonSuccess =>
              /\ response.status = upstream[1].reply.status
              /\ "error" \in DOMAIN response.body

(***************************************************************************)
(* C26.  In every state the store reaches by its operations the current    *)
(* marker is null or the id of a conversation the store holds.             *)
(***************************************************************************)
C26_MarkerNamesPresent ==
    currentConversationId = Null \/ MapHas(conversations, currentConversationId)

\* the operations that can leave the marker on an id the store does not hold
LeavesMarker ==
    \/ last'.op = "setCurrentConversation"
    \/ last'.op = "importConversations"
    \/ last'.op = "createConversation" /\ ~MapHas(conversations', ret')

\* C26 is kept by every other step
C26_UnlessSetOrImport ==
    [][(C26_MarkerNamesPresent /\ ~LeavesMarker) => C26_MarkerNamesPresent']_vars

(***************************************************************************)
(* SpecWrites: the mutating operations of the store when localStorage      *)
(* .setItem may throw (quota, private mode).                               *)
(***************************************************************************)
WriteOutcomes == BOOLEAN

NextWrites ==
    \/ Tick /\ UNCHANGED <<server, ui, aside>>
    \/ \E model \in Models, r \in RandomSuffixes, ok \in WriteOutcomes :
          CreateConversation(model, r, ok) /\ UNCHANGED <<server, ui, aside>>
    \/ \E id \in KnownIds, ok \in WriteOutcomes :
          AddMessage(id, Hello, "user", ok) /\ UNCHANGED <<server, ui, aside>>
    \/ \E id \in KnownIds, ok \in WriteOutcomes :
          DeleteConversation(id, ok) /\ UNCHANGED <<server, ui, aside>>
    \/ \E ok \in WriteOutcomes : ClearAllConversations(ok) /\ UNCHANGED <<server, ui, aside>>
    \/ \E jsonData \in {MissingMessagesJson, Stringify(conversations)}, ok \in WriteOutcomes :
          ImportConversations(jsonData, ok) /\ UNCHANGED <<server, ui, aside>>

SpecWrites == Init /\ [][NextWrites]_vars

(***************************************************************************)
(* C24.  A mutating operation whose write to localStorage throws raises    *)
(* nothing and keeps what it did to the conversations in memory; the next  *)
(* mutating operation whose write succeeds leaves the stored item equal to *)
(* the whole set of conversations in memory.                               *)
(***************************************************************************)
\* what the operation of this step does in memory, whatever its write does
MemoryEffect ==
    /\ last'.op = "createConversation" =>
          /\ currentConversationId' = ret'
          /\ MapHas(conversations', ret') \/ Len(conversations) >= MAX_CONVERSATIONS
    /\ (last'.op = "addMessage" /\ MapHas(conversations, last'.id)) =>
          LET messages == MapGet(conversations', last'.id).messages
          IN /\ Len(messages) >= 1
             /\ messages[Len(messages)].id = msgSeq + 1
             /\ messages[Len(messages)].content = Hello
    /\ last'.op = "deleteConversation" =>
          /\ ~MapHas(conversations', last'.id)
          /\ currentConversationId' # last'.id
    /\ last'.op = "clearAllConversations" =>
          conversations' = <<>> /\ currentConversationId' = Null
    /\ (last'.op = "importConversations" /\ ret' = TRUE) =>
          Stringify(conversations') = last'.jsonData

\* this step is an operation that wrote, and its write succeeded
WriteSucceeded ==
    \/ \E model \in Models, r \in RandomSuffixes : CreateConversation(model, r, TRUE)
    \/ \E id \in Keys(conversations) : AddMessage(id, Hello, "user", TRUE)
    \/ \E id \in KnownIds : DeleteConversation(id, TRUE)
    \/ ClearAllConversations(TRUE)
    \/ /\ last'.op = "importConversations"
       /\ ret' = TRUE
       /\ ImportConversations(last'.jsonData, TRUE)

C24_FailedWriteIsSwallowed ==
    [][/\ ops' # ops => MemoryEffect
       /\ WriteSucceeded => storage' = Stringify(conversations')]_vars

\* a deletion whose write failed: the conversation is gone from memory and
\* the stored item still holds it
C24_Witness ==
    /\ last.op = "deleteConversation"
    /\ ~MapHas(conversations, last.id)
    /\ storage.kind = "array"
    /\ \E i \in DOMAIN storage.elems : storage.elems[i].id = last.id

\* after failed writes the stored item is two operations behind the memory
C24_TwoBehind ==
    /\ Len(conversations) = 2
    /\ storage = NoItem

(***************************************************************************)
(* C25.  For a chat submission of the page, the messages that reach the    *)
(* provider are the system preamble, then the window of the conversation's *)
(* history, then the user message just submitted, and that message is in   *)
(* the list exactly once.                                                  *)
(***************************************************************************)
\* the messages of the call POST /chat makes for a request body of the page
UpstreamMessages(body) ==
    ChatPOST(body, [GROQ_API_KEY |-> "gsk", OPENROUTER_API_KEYS |-> <<"k1">>], 1,
             [kind |-> "rejected", message |-> "fetch failed"]).upstream[1].messages

\* this step is a submit that has sent a chat request
ChatSubmitted ==
    /\ last'.op = "handleSubmit"
    /\ Len(inFlight') = Len(inFlight) + 1
    /\ inFlight'[Len(inFlight')].route = "chat"

\* the list is the preamble, the window sent by the page, the new message
SentInOrder(body) ==
    LET sent == UpstreamMessages(body)
    IN /\ Len(sent) = Len(body.messages) + 2
       /\ sent[1] = [role |-> "system", content |-> SYSTEM_PROMPT]
       /\ \A i \in DOMAIN body.messages :
             sent[i + 1] = [role |-> body.messages[i].role,
                            content |-> body.messages[i].content]
       /\ sent[Len(sent)] = [role |-> "user", content |-> body.message]

\* how often the message stored under `id` by this submit is in the list:
\* once as its last element, and once for each copy in the window
Occurrences(body, id) ==
    1 + Cardinality({i \in DOMAIN body.messages : body.messages[i].id = id})

C25_SubmittedMessageOnce ==
    [][ChatSubmitted =>
          LET body == inFlight'[Len(inFlight')].body
          IN /\ SentInOrder(body)
             /\ Occurrences(body, msgSeq') = 1]_vars

\* the order holds, and the window ends with a copy of the new message
C25_OrderAndTwice ==
    [][ChatSubmitted =>
          LET body == inFlight'[Len(inFlight')].body
          IN /\ SentInOrder(body)
             /\ msgSeq' = msgSeq + 1
             /\ Occurrences(body, msgSeq') = 2
             /\ body.messages[Len(body.messages)].id = msgSeq']_vars

(***************************************************************************)
(* C27.  When a chat request settles with a reply, whatever the user has   *)
(* done while it was in flight (selected another conversation, started a   *)
(* new one, deleted the active one), the reply is displayed in and         *)
(* appended to the conversation that received the user message: it is not  *)
(* shown among the messages of another conversation, and it is not shown   *)
(* while missing from the store.                                           *)
(***************************************************************************)
\* this step is the success continuation of a chat request
ReplyArrived ==
    /\ last'.op = "chatSettled"
    /\ Len(page'.messages) = Len(page.messages) + 1
    /\ page'.messages[Len(page'.messages)].content # APOLOGY

\* the reply is the newest message of the conversation `id` in the store
ReplyStoredIn(id) ==
    /\ MapHas(conversations', id)
    /\ LET messages == MapGet(conversations', id).messages
       IN /\ Len(messages) >= 1
          /\ messages[Len(messages)].id = msgSeq'
          /\ msgSeq' = msgSeq + 1
          /\ messages[Len(messages)].role = "assistant"

C27_ReplyStaysInItsConversation ==
    [][ReplyArrived =>
          /\ page'.currentConversationId = last'.id
          /\ ReplyStoredIn(last'.id)]_vars

\* C27 holds when the conversation displayed is still the one that was sent
C27_UnlessSwitched ==
    [][(ReplyArrived /\ page.currentConversationId = last'.id) =>
          /\ page'.currentConversationId = last'.id
          /\ ReplyStoredIn(last'.id)]_vars

(***************************************************************************)
(* C28.  A submit that has set isLoading is followed by a state in which   *)
(* isLoading is false again, once its fetch has settled, whether with a    *)
(* success, a status that is not OK or a rejection, on the chat and on the *)
(* image path; and the page is never loading without a request in flight.  *)
(***************************************************************************)
C28_LoadingEnds ==
    /\ [](page.isLoading => Len(inFlight) >= 1)
    /\ page.isLoading ~> ~page.isLoading

\* a chat request has failed, the apology is shown and the page is not loading
C28_Witness ==
    /\ last.op = "chatSettled"
    /\ page.messages[Len(page.messages)].content = APOLOGY
    /\ ~page.isLoading
    /\ inFlight = <<>>

\* the same after an image request that failed
C28_ImageReached ==
    /\ last.op = "imageSettled"
    /\ page.imagePrompt # ""
    /\ ~page.isLoading
    /\ inFlight = <<>>

(***************************************************************************)
(* AuthService.  signUp, signIn and signOut wait on a timer before they do *)
(* anything, and what follows the timer runs without another await: each   *)
(* call is one step.  The item "mod_ai_users" is the sequence of records    *)
(* {user, password} it holds (absent reads as []), the item "mod_ai_auth"   *)
(* a sequence of no or one saved state.                                    *)
(***************************************************************************)
MaxAuthOps == 3
PASSWORD_LENGTH == 6

AuthCounted == ops < MaxAuthOps /\ ops' = ops + 1

Emails == {"", "ann", "ann@modai.com", "bob@modai.com", "demo@modai.com"}
Passwords == {"", "12345", "demo123", "secret1"}
Names == {"", "Ann"}

Threw(message) == [threw |-> TRUE, message |-> message, value |-> NoUser]
Returns(user) == [threw |-> FALSE, message |-> "", value |-> user]

\* text.includes(part)
Includes(text, part) ==
    \E i \in 1..Len(text) :
        i + Len(part) - 1 <= Len(text) /\ SubSeq(text, i, i + Len(part) - 1) = part

\* JSON.stringify of a user, and of the auth state; JSON.parse leaves the date a string
UserToJson(user) == [user EXCEPT !.createdAt = [kind |-> "string", t |-> @.t]]
AuthStateToJson(state) == [state EXCEPT !.user = UserToJson(@)]

DEMO_USER ==
    [id |-> [prefix |-> "demo_user", t |-> 0, r |-> ""], email |-> "demo@modai.com",
     name |-> "Demo User", createdAt |-> [kind |-> "Date", t |-> 0]]

\* mutant: the email of the stored record's user is compared
SomeUserHasEmail(existingUsers, email) ==
    \E i \in DOMAIN existingUsers : existingUsers[i].user.email = email

\* existingUsers.some((user) => user.email === email): the elements are the
\* stored records {user, password}, and the property read is their own `email`
SomeHasEmail(existingUsers, email) ==
    \E i \in DOMAIN existingUsers :
        /\ "email" \in DOMAIN existingUsers[i]
        /\ existingUsers[i].email = email

\* storeUser: [...existingUsers, {user, password}] written inside try/catch
StoreUser(existingUsers, user, password, ok) ==
    IF ok THEN Append(existingUsers, [user |-> UserToJson(user), password |-> password])
    ELSE existingUsers

\* storedUsers.find((record) => record.user.email === email)
Find(storedUsers, email) ==
    SelectSeq(storedUsers, LAMBDA record : record.user.email = email)

\* what signUp throws, or the user it creates
SignedUp(service, email, password, name, r) ==
    IF email = "" \/ password = "" \/ name = ""
    THEN Threw("All fields are required")
    ELSE IF Len(password) < PASSWORD_LENGTH
    THEN Threw("Password must be at least 6 characters")
    ELSE IF ~Includes(email, "@")
    THEN Threw("Please enter a valid email address")
    ELSE IF SomeHasEmail(service.users, email)
    THEN Threw("An account with this email already exists")
    ELSE Returns([id |-> [prefix |-> "user", t |-> now, r |-> r], email |-> email,
                  name |-> name, createdAt |-> [kind |-> "Date", t |-> now]])

SignUp(email, password, name, r, ok) ==
    LET result == SignedUp(authService, email, password, name, r)
        authState == [user |-> result.value, isAuthenticated |-> TRUE]
    IN /\ AuthCounted
       /\ last' = [op |-> "signUp", email |-> email, password |-> password, name |-> name]
       /\ ret' = result
       /\ authService' =
             IF result.threw THEN authService
             ELSE [authState |-> authState,
                   item |-> <<AuthStateToJson(authState)>>,
                   users |-> StoreUser(authService.users, result.value, password, ok)]
       /\ UNCHANGED <<conversations, currentConversationId, storage, now, msgSeq,
                      appended, created, server, ui, advancedSpeech>>

\* what signIn throws, or the user it signs in
SignedIn(service, email, password) ==
    IF email = "demo@modai.com" /\ password = "demo123"
    THEN Returns(DEMO_USER)
    ELSE IF email = "" \/ password = ""
    THEN Threw("Email and password are required")
    ELSE LET found == Find(service.users, email)
         IN IF found = <<>>
            THEN Threw("No account found with this email address")
            ELSE IF found[1].password # password
            THEN Threw("Incorrect password")
            ELSE Returns(found[1].user)

SignIn(email, password) ==
    LET result == SignedIn(authService, email, password)
        authState == [user |-> result.value, isAuthenticated |-> TRUE]
    IN /\ AuthCounted
       /\ last' = [op |-> "signIn", email |-> email, password |-> password, name |-> ""]
       /\ ret' = result
       /\ authService' =
             IF result.threw THEN authService
             ELSE [authService EXCEPT !.authState = authState,
                                      !.item = <<AuthStateToJson(authState)>>]
       /\ UNCHANGED <<conversations, currentConversationId, storage, now, msgSeq,
                      appended, created, server, ui, advancedSpeech>>

\* signOut: clearAuthState
SignOut ==
    /\ AuthCounted
    /\ last' = [op |-> "signOut", email |-> "", password |-> "", name |-> ""]
    /\ ret' = Returns(NoUser)
    /\ authService' = [authService EXCEPT
                          !.authState = [user |-> NoUser, isAuthenticated |-> FALSE],
                          !.item = <<>>]
    /\ UNCHANGED <<conversations, currentConversationId, storage, now, msgSeq,
                   appended, created, server, ui, advancedSpeech>>

\* new AuthService() on a page load: loadAuthState revives the saved date
LoadAuthState ==
    /\ AuthCounted
    /\ last' = [op |-> "loadAuthState", email |-> "", password |-> "", name |-> ""]
    /\ ret' = Returns(NoUser)
    /\ authService' =
          [authService EXCEPT
              !.authState =
                  IF authService.item = <<>>
                  THEN [user |-> NoUser, isAuthenticated |-> FALSE]
                  ELSE [user |-> [authService.item[1].user EXCEPT
                                     !.createdAt = [kind |-> "Date", t |-> @.t]],
                        isAuthenticated |-> authService.item[1].isAuthenticated]]
    /\ UNCHANGED <<conversations, currentConversationId, storage, now, msgSeq,
                   appended, created, server, ui, advancedSpeech>>

\* time passes between two calls
AuthTick ==
    /\ AuthCounted
    /\ now' = now + 1
    /\ last' = [op |-> "tick", email |-> "", password |-> "", name |-> ""]
    /\ ret' = Returns(NoUser)
    /\ UNCHANGED <<conversations, currentConversationId, storage, msgSeq,
                   appended, created, server, ui, aside>>

NextAuth ==
    \/ AuthTick
    \/ \E email \in Emails, password \in Passwords, name \in Names,
          r \in RandomSuffixes, ok \in BOOLEAN : SignUp(email, password, name, r, ok)
    \/ \E email \in Emails, password \in Passwords : SignIn(email, password)
    \/ SignOut
    \/ LoadAuthState

SpecAuth == Init /\ [][NextAuth]_vars

(***************************************************************************)
(* C29.  signUp with valid fields and an email for which a record is       *)
(* stored throws "An account with this email already exists", stores no    *)
(* record and leaves the authentication state as it was; so the stored     *)
(* records never hold two accounts with one email.                         *)
(***************************************************************************)
AtMostOnePerEmail ==
    \A i, j \in DOMAIN authService.users :
        authService.users[i].user.email = authService.users[j].user.email => i = j

\* this step is a signUp with valid fields for an email that is stored already
SignedUpExisting ==
    /\ last'.op = "signUp"
    /\ last'.name # ""
    /\ Len(last'.password) >= PASSWORD_LENGTH
    /\ SomeUserHasEmail(authService.users, last'.email)

C29_DuplicateEmailRejected ==
    /\ []AtMostOnePerEmail
    /\ [][SignedUpExisting =>
             /\ ret' = Threw("An account with this email already exists")
             /\ authService' = authService]_vars

\* what the code does: a signUp with valid fields never finds the email
C29_NeverFound ==
    [][(/\ last'.op = "signUp"
        /\ last'.name # ""
        /\ Len(last'.password) >= PASSWORD_LENGTH
        /\ Includes(last'.email, "@")) =>
          /\ ~ret'.threw
          /\ authService'.authState.user.email = last'.email
          /\ Len(authService'.users) \in {Len(authService.users), Len(authService.users) + 1}]_vars

(***************************************************************************)
(* AdvancedSpeechService.  The MediaRecorder changes its state when        *)
(* start, pause, resume or stop is called and queues the event; the        *)
(* handler of an event runs later, as a step of its own.  startRecording   *)
(* runs to its await of getUserMedia, and continues when that settles.  A  *)
(* recording is started here when the one before has ended and its events  *)
(* have been handled.                                                      *)
(***************************************************************************)
MaxSpeechOps == 5

SpeechCounted == ops < MaxSpeechOps /\ ops' = ops + 1

Others == <<conversations, currentConversationId, storage, now, msgSeq, appended,
            created, ret, server, ui, authService>>

\* clearInterval on each timer that is set
stopTimers(sp) ==
    [sp EXCEPT !.intervals = @ - (IF sp.recordingTimer THEN 1 ELSE 0)
                               - (IF sp.levelUpdateTimer THEN 1 ELSE 0),
               !.recordingTimer = FALSE,
               !.levelUpdateTimer = FALSE]

\* two setInterval calls, whose handles replace the ones held
startTimers(sp) ==
    [sp EXCEPT !.intervals = @ + 2, !.recordingTimer = TRUE, !.levelUpdateTimer = TRUE]

cleanup(sp) == stopTimers([sp EXCEPT !.audioStream = FALSE])

\* the handler startRecording installs for each event
onstart(sp) == startTimers([sp EXCEPT !.recordingState.isRecording = TRUE])
onpause(sp) == [sp EXCEPT !.recordingState.isPaused = TRUE]
onresume(sp) == [sp EXCEPT !.recordingState.isPaused = FALSE]
onstop(sp) ==
    cleanup(stopTimers([sp EXCEPT !.recordingState =
                                      [isRecording |-> FALSE, isPaused |-> FALSE]]))

\* the handler stopRecording installs in place of onstop
onstopResolving(sp) == [cleanup(sp) EXCEPT !.stopped = "resolved"]

StartRecording ==
    /\ SpeechCounted
    /\ ~advancedSpeech.starting
    /\ advancedSpeech.mediaRecorder \in {"null", "inactive"}
    /\ advancedSpeech.events = <<>>
    /\ advancedSpeech' = [advancedSpeech EXCEPT !.starting = TRUE, !.stopped = "none"]
    /\ last' = [op |-> "startRecording", id |-> Null]
    /\ UNCHANGED Others

\* getUserMedia has settled: with a stream, or rejected (permission denied)
MediaSettled(granted) ==
    /\ advancedSpeech.starting
    /\ advancedSpeech' =
          IF granted
          THEN [advancedSpeech EXCEPT
                   !.starting = FALSE,
                   !.audioStream = TRUE,
                   !.mediaRecorder = "recording",
                   !.onstop = "onstop",
                   !.events = Append(@, "start")]
          ELSE [cleanup(advancedSpeech) EXCEPT !.starting = FALSE]
    /\ last' = [op |-> "getUserMedia", id |-> Null]
    /\ UNCHANGED <<Others, ops>>

StopRecording ==
    /\ SpeechCounted
    /\ advancedSpeech' =
          IF advancedSpeech.mediaRecorder \in {"null", "inactive"}
          THEN [advancedSpeech EXCEPT !.stopped = "rejected"]
          ELSE [advancedSpeech EXCEPT
                   !.onstop = "resolve",
                   !.mediaRecorder = "inactive",
                   !.events = Append(@, "stop"),
                   !.stopped = "pending"]
    /\ last' = [op |-> "stopRecording", id |-> Null]
    /\ UNCHANGED Others

PauseRecording ==
    /\ SpeechCounted
    /\ advancedSpeech' =
          IF advancedSpeech.mediaRecorder = "recording"
          THEN [advancedSpeech EXCEPT !.mediaRecorder = "paused",
                                      !.events = Append(@, "pause")]
          ELSE advancedSpeech
    /\ last' = [op |-> "pauseRecording", id |-> Null]
    /\ UNCHANGED Others

ResumeRecording ==
    /\ SpeechCounted
    /\ advancedSpeech' =
          IF advancedSpeech.mediaRecorder = "paused"
          THEN [advancedSpeech EXCEPT !.mediaRecorder = "recording",
                                      !.events = Append(@, "resume")]
          ELSE advancedSpeech
    /\ last' = [op |-> "resumeRecording", id |-> Null]
    /\ UNCHANGED Others

\* the tracks of the stream end (the device is removed): the recorder stops
\* by itself and its stop event is handled by the handler installed
TracksEnded ==
    /\ SpeechCounted
    /\ advancedSpeech.mediaRecorder \in {"recording", "paused"}
    /\ advancedSpeech' = [advancedSpeech EXCEPT !.mediaRecorder = "inactive",
                                                !.events = Append(@, "stop")]
    /\ last' = [op |-> "ended", id |-> Null]
    /\ UNCHANGED Others

\* the oldest queued event is handled
Dispatch ==
    /\ advancedSpeech.events # <<>>
    /\ LET event == Head(advancedSpeech.events)
           sp == [advancedSpeech EXCEPT !.events = Tail(@)]
       IN advancedSpeech' =
             IF event = "start" THEN onstart(sp)
             ELSE IF event = "pause" THEN onpause(sp)
             ELSE IF event = "resume" THEN onresume(sp)
             ELSE IF sp.onstop = "resolve" THEN onstopResolving(sp)
             ELSE onstop(sp)
    /\ last' = [op |-> "event", id |-> Null]
    /\ UNCHANGED <<Others, ops>>

NextSpeech ==
    \/ StartRecording
    \/ \E granted \in BOOLEAN : MediaSettled(granted)
    \/ StopRecording
    \/ PauseRecording
    \/ ResumeRecording
    \/ TracksEnded
    \/ Dispatch

SpecSpeech == Init /\ [][NextSpeech]_vars

(***************************************************************************)
(* C30.  Once the promise of stopRecording has resolved, the recording     *)
(* state has isRecording false and isPaused false and both timers are      *)
(* cleared; and when no event of the recorder is waiting, isRecording is   *)
(* true only if the recorder is recording or paused.                       *)
(***************************************************************************)
Recording == advancedSpeech.mediaRecorder \in {"recording", "paused"}

C30_StoppedMeansNotRecording ==
    /\ advancedSpeech.stopped = "resolved" =>
          /\ ~advancedSpeech.recordingState.isRecording
          /\ ~advancedSpeech.recordingState.isPaused
          /\ ~advancedSpeech.recordingTimer
          /\ ~advancedSpeech.levelUpdateTimer
    /\ (advancedSpeech.recordingState.isRecording /\ advancedSpeech.events = <<>>) =>
          Recording

\* what holds: the timers and the stream are released by every stop, and the
\* state is right as long as stopRecording has not replaced the stop handler
C30_TimersCleared ==
    /\ advancedSpeech.stopped = "resolved" =>
          /\ ~advancedSpeech.recordingTimer
          /\ ~advancedSpeech.levelUpdateTimer
          /\ advancedSpeech.intervals = 0
          /\ ~advancedSpeech.audioStream
    /\ (/\ advancedSpeech.recordingState.isRecording
        /\ advancedSpeech.events = <<>>
        /\ advancedSpeech.onstop = "onstop") => Recording

====
